---- MODULE Spec2Model ----
(***************************************************************************)
(* The ingestion-to-upload pipeline of mac-uploader: the deduplicating     *)
(* UploadQueue (upload_queue.rs), the UploadManager's tick loop and the    *)
(* upload tasks it spawns (upload_manager.rs), and the producers that      *)
(* insert paths into the queue (app.rs).                                   *)
(*                                                                         *)
(* The queue lives behind one tokio Mutex.  Every holder keeps the guard    *)
(* for one critical section in which it never yields to another task, so   *)
(* each critical section is one action of the model.  An upload task is    *)
(* followed from its first poll, where it takes the read guard of the      *)
(* event code.  Under Spec what upload_photo and fs::rename return is      *)
(* chosen freely and the event code is never updated; the specifications   *)
(* further down add update_event_code, the files of the watch folder and   *)
(* of uploaded/, a burst of files, and the file watcher's filter.          *)
(*                                                                         *)
(* Further specifications follow one part each: ImageSpec the extension    *)
(* filter, TeardownSpec the construction and the drop of the FileWatcher,  *)
(* PipeSpec the way of a notification into the queue, ApiSpec the results  *)
(* of the ApiClient, FairUploadSpec the scheduled loop and tasks, and      *)
(* LockSpec the critical section of add_file split at the file read of     *)
(* generate_thumbnail.                                                     *)
(***************************************************************************)
EXTENDS Integers, Sequences, FiniteSets, TLC

(* ------------------------------ bounds -------------------------------- *)

\* Number of UploadItems (fresh Uuids) created in one run.
MaxIds == 2

\* Number of tick loops spawned in one run.
MaxLoops == 2

\* Cap on how often one item id is claimed (the counter is a history variable).
MaxClaims == 2

\* The source paths the producers report: a JPEG and a raw NEF file of the
\* watch folder.
Paths == {"photo.jpg", "raw.nef"}

\* Number of UploadItems created in one run of the burst specification.
MaxBurst == 4

\* The files of a burst: more of them than the queue's ceiling.
BurstPaths == Paths \cup {"burst3.png", "burst4.jpeg"}

\* The Uuids UploadItem::new draws, in the order drawn.
Ids == 1..MaxIds

\* The ids of the history counters: those of a burst included.
AllIds == 1..(MaxIds + MaxBurst)

\* The event codes the user types into the settings.
Codes == {"evt-a", "evt-b"}

\* The seconds the wall clock shows in one run.
Seconds == {0, 1}

\* The path the camera writes a file to, again after the file was moved or
\* removed.
FsPaths == {"photo.jpg"}

\* The files written into the watch folder in one run, in the order written,
\* and the file a previous session of the application left in uploaded/.
NewFiles == <<"first", "second">>
OldFile == "old"
NoFile == ""

\* Number of paths the watcher's channel holds before the delivery thread
\* takes one.
MaxChannel == 2

\* The file names the native watcher reports: image extensions in lower,
\* upper and mixed case, another image format, no extension, a name that
\* is only a dot and an extension, and an image extension that is not the
\* last one.
WatchNames ==
    {<<"a", ".", "j", "p", "g">>, <<"a", ".", "J", "P", "G">>,
     <<"a", ".", "J", "p", "e", "g">>, <<"a", ".", "p", "n", "g">>,
     <<"a", ".", "N", "E", "F">>, <<"a", ".", "h", "e", "i", "c">>,
     <<"a">>, <<".", "j", "p", "g">>,
     <<"a", ".", "j", "p", "g", ".", "t", "x", "t">>}

\* A reported path: its file name and what path.is_file() answers for it.
WatchPaths == [name : WatchNames, is_file : BOOLEAN]

\* The paths of the events that report two paths.
PairPaths ==
    {[name |-> <<"a", ".", "J", "P", "G">>, is_file |-> TRUE],
     [name |-> <<"a", ".", "p", "n", "g">>, is_file |-> FALSE],
     [name |-> <<"a", ".", "h", "e", "i", "c">>, is_file |-> TRUE]}

\* event.paths of the events the native watcher hands to the callback.
EventPaths ==
    {<<p>> : p \in WatchPaths} \cup {<<p, q>> : p \in PairPaths, q \in PairPaths}

\* notify's EventKind, by variant.
EventKinds == {"Create", "Modify", "Remove", "Access"}

\* The HTTP statuses the service answers with.
HttpStatuses == {200, 201, 404, 500}

\* The bodies of its answers: the text, and what serde makes of it for the
\* response type asked for, None where it does not deserialize.
Bodies ==
    {[text |-> "<html>", parsed |-> << >>],
     [text |-> "{success:true,message:stored}",
      parsed |-> <<[success |-> TRUE, message |-> "stored"]>>],
     [text |-> "{success:false,message:quota}",
      parsed |-> <<[success |-> FALSE, message |-> "quota"]>>],
     [text |-> "{success:false,message:}",
      parsed |-> <<[success |-> FALSE, message |-> ""]>>]}

\* What upload_photo finds at file_path: a path without a file name, a file
\* it cannot read, a file it reads.
FileStates == {"no_name", "unreadable", "readable"}

\* What the file system holds at the path given to FileWatcher::new.
PathKinds == {"missing", "file", "dir"}

\* The event.paths of the events reported while watchers come and go: an
\* image, a second image and a file that is no image.
TeardownPaths ==
    {<<[name |-> <<"a", ".", "j", "p", "g">>, is_file |-> TRUE]>>,
     <<[name |-> <<"a", ".", "p", "n", "g">>, is_file |-> TRUE]>>,
     <<[name |-> <<"a">>, is_file |-> TRUE]>>}

\* Number of errors the native watcher reports in one run.
MaxErrors == 2

\* Number of times one path is reported in one run of the pipeline.
MaxNotify == 3

\* The settings the user can enter: API endpoints, API keys and watch
\* folders.
Endpoints == {"https://a", "https://b"}
ApiKeys == {"key-a", "key-b"}
Folders == {"dir-a", "dir-b"}

\* Number of times the user changes the settings in one run.
MaxEdits == 1

VARIABLES
    items,       \* UploadQueue.items: the VecDeque of UploadItems, front first
    nextId,      \* number of Uuids drawn so far; the next item gets nextId + 1
    is_running,  \* UploadManager.is_running
    loops,       \* number of tick loops spawned by start(); none ever exits
    tasks,       \* the upload tasks spawned by the tick loops and not yet finished
    claimCount,  \* history: how many times each item id has been claimed
    last,        \* history: the call made by the last step and what it returned
    uploadCount, \* history: how many times upload_photo was called per item id
    active_uploads, \* UploadQueue.active_uploads
    event_code,  \* the String behind UploadManager.event_code's RwLock
    writer,      \* the value an update_event_code call waiting in write()
                 \* carries, "" when no call is waiting
    now,         \* the wall clock, in seconds
    src,         \* the watch folder: the file at each path, NoFile for none
    uploaded,    \* the uploaded/ folder: one [name, file] per directory entry
    nextFile,    \* number of files created so far
    channel,     \* the file watcher's mpsc channel: paths sent, not yet received
    watcher,     \* the FileWatcher: its handle, subscription and delivery thread
    is_watching, \* MacUploaderApp.is_watching
    file_events, \* the application's file event channel (file_sender to
                 \* file_receiver): paths delivered, not yet received
    pending,     \* the insertion tasks update() spawned that have not run yet:
                 \* how many per path
    watchLog,    \* history: what the native watcher reported and the callback
                 \* sent, per file name, and how many errors it reported
    guard,       \* the holder of the queue's Mutex while it is inside a call
                 \* that it makes under the lock, NoGuard otherwise
    app          \* MacUploaderApp's settings (api_endpoint, api_key,
                 \* watch_folder), its api_client and upload_manager, and as
                 \* history the settings the watch session was started with

codeVars == <<event_code, writer>>
fsVars == <<now, src, uploaded, nextFile>>
appVars == <<watcher, is_watching, file_events, pending, watchLog, guard, app>>

vars == <<items, nextId, is_running, loops, tasks, claimCount, last,
          uploadCount, active_uploads, event_code, writer, now, src, uploaded,
          nextFile, channel, watcher, is_watching, file_events, pending,
          watchLog, guard, app>>

(* ------------------------------- paths -------------------------------- *)

\* A file name is the sequence of its characters.
Upper == <<"A", "B", "C", "D", "E", "F", "G", "H", "I", "J", "K", "L", "M",
           "N", "O", "P", "Q", "R", "S", "T", "U", "V", "W", "X", "Y", "Z">>
Lower == <<"a", "b", "c", "d", "e", "f", "g", "h", "i", "j", "k", "l", "m",
           "n", "o", "p", "q", "r", "s", "t", "u", "v", "w", "x", "y", "z">>

\* char::to_lowercase on the characters of the names in use.
to_lowercase_char(c) ==
    IF \E i \in 1..Len(Upper) : Upper[i] = c
    THEN Lower[CHOOSE i \in 1..Len(Upper) : Upper[i] = c]
    ELSE c

\* str::to_lowercase
to_lowercase(str) == [i \in 1..Len(str) |-> to_lowercase_char(str[i])]

\* The position of the last '.' of a name, 0 when it has none.
LastDot(name) ==
    IF \E i \in 1..Len(name) : name[i] = "."
    THEN CHOOSE i \in 1..Len(name) :
            name[i] = "." /\ \A j \in (i + 1)..Len(name) : name[j] # "."
    ELSE 0

\* Path::extension: nothing for a name without a '.' and for a name whose
\* only '.' is its first character, else what follows the last '.'.
extension(name) ==
    IF LastDot(name) <= 1
    THEN << >>
    ELSE <<SubSeq(name, LastDot(name) + 1, Len(name))>>

\* Path::file_stem: the name up to its last '.', the whole name where
\* extension finds nothing.
file_stem(name) ==
    IF LastDot(name) <= 1 THEN name ELSE SubSeq(name, 1, LastDot(name) - 1)

\* The extensions is_image_file matches.
ImageExtensions ==
    {<<"j", "p", "g">>, <<"j", "p", "e", "g">>, <<"p", "n", "g">>, <<"n", "e", "f">>}

\* Variant of is_image_file that compares the extension as it is written.
is_image_file_exact(name) ==
    IF extension(name) = << >>
    THEN FALSE
    ELSE extension(name)[1] \in ImageExtensions

\* is_image_file
is_image_file(name) ==
    IF extension(name) = << >>
    THEN FALSE
    ELSE to_lowercase(extension(name)[1]) \in ImageExtensions

\* The characters of the source paths' file names (Path::file_name).
file_name(file_path) ==
    CASE file_path = "photo.jpg" -> <<"p", "h", "o", "t", "o", ".", "j", "p", "g">>
      [] file_path = "raw.nef" -> <<"r", "a", "w", ".", "n", "e", "f">>
      [] file_path = "burst3.png" -> <<"b", "u", "r", "s", "t", "3", ".", "p", "n", "g">>
      [] file_path = "burst4.jpeg" -> <<"b", "u", "r", "s", "t", "4", ".", "j", "p", "e", "g">>

(* --------------------------- UploadStatus ----------------------------- *)

Queued == [tag |-> "Queued", msg |-> ""]
Uploading == [tag |-> "Uploading", msg |-> ""]
Completed == [tag |-> "Completed", msg |-> ""]
Failed(error) == [tag |-> "Failed", msg |-> error]

\* The messages an upload task can fail with (upload_and_move_file's Err
\* values, wrapped by the task in "Upload failed: ...").
ApiError == "Upload failed: API error"
MoveError == "Upload failed: Failed to move file"
Errors == {ApiError, MoveError}

Statuses == {Queued, Uploading, Completed} \cup {Failed(e) : e \in Errors}

(* ---------------------------- UploadItem ------------------------------ *)

\* Option<DateTime<Utc>>: None, and Some of a reading of the clock.
None == << >>
Some(t) == <<t>>

\* UploadItem::new.  progress is kept in tenths: 0, 1 (0.1), 9 (0.9), 10 (1.0).
NewItem(id, file_path) ==
    [id |-> id, file_path |-> file_path, status |-> Queued, progress |-> 0,
     thumbnail_data |-> FALSE, added_at |-> now, started_at |-> None,
     completed_at |-> None]

\* Variant of start_upload that leaves the status as it was.
start_upload_keeps_status(item) ==
    [item EXCEPT !.started_at = Some(now), !.progress = 1]

start_upload(item) ==
    [item EXCEPT !.status = Uploading, !.started_at = Some(now), !.progress = 1]

\* Variant of complete_upload that also stamps started_at.
complete_upload_restamps(item) ==
    [item EXCEPT !.status = Completed, !.started_at = Some(now),
                 !.completed_at = Some(now), !.progress = 10]

complete_upload(item) ==
    [item EXCEPT !.status = Completed, !.completed_at = Some(now),
                 !.progress = 10]

\* Variant of fail_upload that puts the item back in line for another attempt.
fail_upload_requeue(item, error) ==
    [item EXCEPT !.status = Queued, !.completed_at = Some(now)]

\* Variant of fail_upload that also resets the progress.
fail_upload_resets_progress(item, error) ==
    [item EXCEPT !.status = Failed(error), !.completed_at = Some(now),
                 !.progress = 0]

fail_upload(item, error) ==
    [item EXCEPT !.status = Failed(error), !.completed_at = Some(now)]

(* ---------------------------- UploadQueue ----------------------------- *)

\* matches!(item.status, UploadStatus::..)
IsQueued(item) == item.status.tag = "Queued"
IsUploading(item) == item.status.tag = "Uploading"
IsCompleted(item) == item.status.tag = "Completed"
IsFailed(item) == item.status.tag = "Failed"

Indexes(q) == 1..Len(q)

\* self.items.iter().any(|item| item.file_path == file_path)
ContainsPath(q, file_path) == \E i \in Indexes(q) : q[i].file_path = file_path

\* generate_thumbnail returns Ok when image::open can decode the file: the
\* JPEG decodes, the raw NEF file does not.
generate_thumbnail(file_path) == file_path = "photo.jpg"

\* Variant of add_file without the duplicate check.
add_file_no_dedup(q, file_path, id) ==
    [items |-> Append(q, [NewItem(id, file_path) EXCEPT
                            !.thumbnail_data = generate_thumbnail(file_path)]),
     ret |-> id]

\* Variant of add_file whose duplicate check looks only at the items that are
\* still Queued or Uploading.
add_file_dedup_pending(q, file_path, id) ==
    IF \E i \in Indexes(q) :
          q[i].file_path = file_path /\ (IsQueued(q[i]) \/ IsUploading(q[i]))
    THEN [items |-> q, ret |-> 0]
    ELSE [items |-> Append(q, [NewItem(id, file_path) EXCEPT
                                  !.thumbnail_data = generate_thumbnail(file_path)]),
          ret |-> id]

\* add_file: the queue after the call and the value returned (ret: 0 for
\* None, the new id for Some(id)).  id is the Uuid UploadItem::new draws.
add_file(q, file_path, id) ==
    IF ContainsPath(q, file_path)
    THEN [items |-> q, ret |-> 0]
    ELSE [items |-> Append(q, [NewItem(id, file_path) EXCEPT
                                  !.thumbnail_data = generate_thumbnail(file_path)]),
          ret |-> id]

\* Variant of get_next_queued_item that also takes an item that has Failed.
get_next_queued_item_or_failed(q) ==
    IF \E i \in Indexes(q) : IsQueued(q[i]) \/ IsFailed(q[i])
    THEN CHOOSE i \in Indexes(q) :
            /\ IsQueued(q[i]) \/ IsFailed(q[i])
            /\ \A j \in 1..(i - 1) : ~(IsQueued(q[j]) \/ IsFailed(q[j]))
    ELSE 0

\* Variant of get_next_queued_item that takes the Queued item nearest the back.
get_next_queued_item_last(q) ==
    IF \E i \in Indexes(q) : IsQueued(q[i])
    THEN CHOOSE i \in Indexes(q) :
            IsQueued(q[i]) /\ \A j \in (i + 1)..Len(q) : ~IsQueued(q[j])
    ELSE 0

\* iter().find(..): the position of the first item that matches, 0 for None.
get_next_queued_item(q) ==
    IF \E i \in Indexes(q) : IsQueued(q[i])
    THEN CHOOSE i \in Indexes(q) :
            IsQueued(q[i]) /\ \A j \in 1..(i - 1) : ~IsQueued(q[j])
    ELSE 0

\* Variant of get_item_mut_by_id that falls back on the item at the front.
get_item_mut_by_id_or_front(q, id) ==
    IF \E i \in Indexes(q) : q[i].id = id
    THEN CHOOSE i \in Indexes(q) :
            q[i].id = id /\ \A j \in 1..(i - 1) : q[j].id # id
    ELSE IF q = << >> THEN 0 ELSE 1

get_item_mut_by_id(q, id) ==
    IF \E i \in Indexes(q) : q[i].id = id
    THEN CHOOSE i \in Indexes(q) :
            q[i].id = id /\ \A j \in 1..(i - 1) : q[j].id # id
    ELSE 0

get_queued_items(q) == SelectSeq(q, IsQueued)
get_active_items(q) == SelectSeq(q, IsUploading)
get_completed_items(q) == SelectSeq(q, IsCompleted)
\* Variant of get_failed_items that compares with == against a Failed value
\* with an empty message instead of matching the variant.
IsFailedExact(item) == item.status = Failed("")
get_failed_items_exact(q) == SelectSeq(q, IsFailedExact)
get_failed_items(q) == SelectSeq(q, IsFailed)

get_stats(q) ==
    [total |-> Len(q),
     queued |-> Len(get_queued_items(q)),
     active |-> Len(get_active_items(q)),
     completed |-> Len(get_completed_items(q)),
     failed |-> Len(get_failed_items(q))]

\* remove_item: the queue without the first item that has the id and
\* whether there was one.
remove_item(q, id) ==
    LET index == get_item_mut_by_id(q, id) IN
    IF index = 0
    THEN [items |-> q, ret |-> FALSE]
    ELSE [items |-> SubSeq(q, 1, index - 1) \o SubSeq(q, index + 1, Len(q)),
          ret |-> TRUE]

NotCompleted(item) == ~IsCompleted(item)
NotFailed(item) == ~IsFailed(item)

\* Variant of clear_failed with clear_completed's predicate.
clear_failed_keeps(q) == SelectSeq(q, NotCompleted)

\* Variant of clear_completed that removes every item that is not waiting.
clear_completed_idle(q) == SelectSeq(q, LAMBDA item : IsQueued(item))

\* retain(|item| !matches!(item.status, ..))
clear_completed(q) == SelectSeq(q, NotCompleted)
clear_failed(q) == SelectSeq(q, NotFailed)
clear_all(q) == << >>

\* UploadQueue::new's max_concurrent_uploads.
max_concurrent_uploads == 3

\* self.active_uploads < self.max_concurrent_uploads
can_start_upload(active, max) == active < max

(* --------------------------- UploadManager ---------------------------- *)

\* Variant of start without the is_running check.
start_unguarded(running, nloops, dirOk) ==
    IF ~dirOk
    THEN [is_running |-> TRUE, loops |-> nloops, res |-> "Err"]
    ELSE [is_running |-> TRUE, loops |-> nloops + 1, res |-> "Ok"]

\* Variant of start that ignores the Result of create_dir_all.
start_ignores_dir(running, nloops, dirOk) ==
    IF running
    THEN [is_running |-> TRUE, loops |-> nloops, res |-> "Ok"]
    ELSE [is_running |-> TRUE, loops |-> nloops + 1, res |-> "Ok"]

\* start(): the manager's flag, the number of tick loops and the Result
\* returned.  dirOk is whether fs::create_dir_all(uploaded_folder) succeeded.
start(running, nloops, dirOk) ==
    IF running
    THEN [is_running |-> TRUE, loops |-> nloops, res |-> "Ok"]
    ELSE IF ~dirOk
         THEN [is_running |-> TRUE, loops |-> nloops, res |-> "Err"]
         ELSE [is_running |-> TRUE, loops |-> nloops + 1, res |-> "Ok"]

\* stop()
stop(running) == FALSE

\* The task the tick loop spawns for the item it claimed, before its first
\* poll; n is the ordinal of this claim of the item id.  code is the event
\* code the task uploads with, file and dest the file it moved and the name
\* it moved it to.  History: claim_code is the event code at the moment of
\* the claim.
NewTask(item, n) ==
    [id |-> item.id, n |-> n, file_path |-> item.file_path, pc |-> "spawned",
     err |-> "", code |-> "", file |-> NoFile, dest |-> None,
     claim_code |-> event_code]

\* Variant of task_begin that uploads with the event code of the moment the
\* item was claimed.
task_begin_claim_value(t, code) ==
    [t EXCEPT !.pc = "uploading", !.code = t.claim_code]

\* let event_code_value = event_code.read().await: the task's first poll
\* takes the read guard and from then on uses the value it found behind it.
task_begin(t, code) == [t EXCEPT !.pc = "uploading", !.code = code]

\* Variant of Readers in which no task keeps its read guard.
Readers_released(ts) == {}

\* The tasks that hold a read guard of the event code: a task keeps the
\* guard it took at its first poll until it ends.
Readers(ts) == {t \in ts : t.pc # "spawned"}

\* App::log_sender, handed to UploadManager::new: always Some.
log_sender == TRUE

\* Variant of update_event_code without the comparison.
update_event_code_always(current, new_code) ==
    [event_code |-> new_code,
     log |-> IF log_sender THEN <<[old |-> current, new |-> new_code]>> ELSE << >>]

\* update_event_code once write() has returned the write guard: the value
\* behind the lock and the log events sent.
update_event_code(current, new_code) ==
    IF current # new_code
    THEN [event_code |-> new_code,
          log |-> IF log_sender THEN <<[old |-> current, new |-> new_code]>>
                  ELSE << >>]
    ELSE [event_code |-> current, log |-> << >>]

\* Variant of tick that claims nothing once stop() has cleared the flag.
tick_while_running(q, count) ==
    LET i == get_next_queued_item(q) IN
    IF i = 0 \/ ~is_running
    THEN [items |-> q, spawned |-> {}]
    ELSE [items |-> [q EXCEPT ![i] = start_upload(q[i])],
          spawned |-> {NewTask(q[i], count[q[i].id] + 1)}]

\* Variant of tick that claims only while fewer than max_concurrent_uploads
\* items are Uploading.
tick_below_ceiling(q, count) ==
    LET i == get_next_queued_item(q) IN
    IF i = 0 \/ ~can_start_upload(Len(get_active_items(q)), max_concurrent_uploads)
    THEN [items |-> q, spawned |-> {}]
    ELSE [items |-> [q EXCEPT ![i] = start_upload(q[i])],
          spawned |-> {NewTask(q[i], count[q[i].id] + 1)}]

\* Variant of tick that claims every Queued item it finds.
tick_all(q, count) ==
    [items |-> [i \in Indexes(q) |->
                  IF IsQueued(q[i]) THEN start_upload(q[i]) ELSE q[i]],
     spawned |-> {NewTask(q[i], count[q[i].id] + 1) : i \in {j \in Indexes(q) : IsQueued(q[j])}}]

\* Variant of tick that claims nothing while the queue holds a Failed item.
tick_unless_failed(q, count) ==
    LET i == get_next_queued_item(q) IN
    IF i = 0 \/ \E j \in Indexes(q) : IsFailed(q[j])
    THEN [items |-> q, spawned |-> {}]
    ELSE [items |-> [q EXCEPT ![i] = start_upload(q[i])],
          spawned |-> {NewTask(q[i], count[q[i].id] + 1)}]

\* One iteration of the tick loop, from queue.lock() to tokio::spawn: the
\* queue after it and the set of tasks it spawned.
tick(q, count) ==
    LET i == get_next_queued_item(q) IN
    IF i = 0
    THEN [items |-> q, spawned |-> {}]
    ELSE [items |-> [q EXCEPT ![i] = start_upload(q[i])],
          spawned |-> {NewTask(q[i], count[q[i].id] + 1)}]

(* ----------------------------- ApiClient ------------------------------ *)

\* StatusCode::is_success
is_success(status) == status >= 200 /\ status < 300

\* The Results of ApiClient's calls: the variant of ApiError or "Ok", the
\* message of an ApiError::ApiError or of the response as the sequence of
\* the pieces it is put together from, and whether the request was sent.
ApiOk(response, requested) ==
    [tag |-> "Ok", message |-> <<response.message>>, requested |-> requested]
ApiErr(tag, message, requested) ==
    [tag |-> tag, message |-> message, requested |-> requested]

\* StatusCode's Display.
status_text(status) ==
    CASE status = 200 -> "200 OK"
      [] status = 201 -> "201 Created"
      [] status = 404 -> "404 Not Found"
      [] status = 500 -> "500 Internal Server Error"

\* format!("HTTP {}: {}", status, text)
http_message(status, text) == <<"HTTP ", status_text(status), ": ", text>>

\* test_connection.  sent says whether send() returns a response, status is
\* its status, body_read whether the body arrives (text() or json() reads
\* it), body what it holds.
test_connection(sent, status, body_read, body) ==
    IF ~sent
    THEN ApiErr("HttpError", << >>, TRUE)
    ELSE IF ~is_success(status)
    THEN IF ~body_read
         THEN ApiErr("HttpError", << >>, TRUE)
         ELSE ApiErr("ApiError", http_message(status, body.text), TRUE)
    ELSE IF ~body_read \/ body.parsed = None
    THEN ApiErr("HttpError", << >>, TRUE)
    ELSE IF ~body.parsed[1].success
    THEN ApiErr("ApiError", <<body.parsed[1].message>>, TRUE)
    ELSE ApiOk(body.parsed[1], TRUE)

\* Variant of upload_photo that does not look at the body's success field.
upload_photo_any_body(file, sent, status, body_read, body) ==
    IF file # "readable"
    THEN ApiErr("IoError", << >>, FALSE)
    ELSE IF ~sent
    THEN ApiErr("HttpError", << >>, TRUE)
    ELSE IF ~is_success(status)
    THEN IF ~body_read
         THEN ApiErr("HttpError", << >>, TRUE)
         ELSE ApiErr("ApiError", http_message(status, body.text), TRUE)
    ELSE IF ~body_read \/ body.parsed = None
    THEN ApiErr("HttpError", << >>, TRUE)
    ELSE ApiOk(body.parsed[1], TRUE)

\* upload_photo.  file is what it finds at file_path; the other parameters
\* are those of test_connection.
upload_photo(file, sent, status, body_read, body) ==
    IF file = "no_name"
    THEN ApiErr("IoError", << >>, FALSE)
    ELSE IF file = "unreadable"
    THEN ApiErr("IoError", << >>, FALSE)
    ELSE IF ~sent
    THEN ApiErr("HttpError", << >>, TRUE)
    ELSE IF ~is_success(status)
    THEN IF ~body_read
         THEN ApiErr("HttpError", << >>, TRUE)
         ELSE ApiErr("ApiError", http_message(status, body.text), TRUE)
    ELSE IF ~body_read \/ body.parsed = None
    THEN ApiErr("HttpError", << >>, TRUE)
    ELSE IF ~body.parsed[1].success
    THEN ApiErr("ApiError", <<body.parsed[1].message>>, TRUE)
    ELSE ApiOk(body.parsed[1], TRUE)

(* ------------------------- files and folders -------------------------- *)

\* extension.and_then(|ext| ext.to_str()).unwrap_or("")
unwrap_or_empty(opt) == IF opt = << >> THEN << >> ELSE opt[1]

\* uploaded_folder.join(file_name): the name of a directory entry of
\* uploaded/ is kept as stem, timestamp suffix (None without one) and
\* extension; with a suffix it reads "{stem}_{timestamp}.{extension}".
new_path(file_path) ==
    [stem |-> file_stem(file_name(file_path)), stamp |-> None,
     ext |-> unwrap_or_empty(extension(file_name(file_path)))]

\* Path::exists
exists(dir, name) == \E e \in dir : e.name = name

\* The final_path of upload_and_move_file; timestamp is Utc::now() formatted
\* down to the second.
final_path(dir, file_path, timestamp) ==
    IF exists(dir, new_path(file_path))
    THEN [new_path(file_path) EXCEPT !.stamp = Some(timestamp)]
    ELSE new_path(file_path)

\* fs::rename(file_path, final_path) returning Ok: the two folders after it.
\* An entry that already has the name is replaced.
rename(folder, dir, file_path, name) ==
    [src |-> [folder EXCEPT ![file_path] = NoFile],
     uploaded |-> {e \in dir : e.name # name}
                    \cup {[name |-> name, file |-> folder[file_path]]}]

\* upload_and_move_file up to the second queue.lock(): where the task stands
\* after api_client.upload_photo returned (apiOk: with Ok) and, after an Ok,
\* fs::rename returned (moveOk: with Ok).
upload_and_move_file(t, apiOk, moveOk) ==
    IF ~apiOk THEN [t EXCEPT !.pc = "failed", !.err = ApiError]
    ELSE IF ~moveOk THEN [t EXCEPT !.pc = "failed", !.err = MoveError]
    ELSE [t EXCEPT !.pc = "moved"]

\* Variant of mark_moved that sets the progress back to 0.
mark_moved_resets(q, id) ==
    LET i == get_item_mut_by_id(q, id) IN
    IF i = 0 THEN q ELSE [q EXCEPT ![i].progress = 0]

\* if let Some(item) = q.get_item_mut_by_id(item_id) { item.progress = 0.9 }
mark_moved(q, id) ==
    LET i == get_item_mut_by_id(q, id) IN
    IF i = 0 THEN q ELSE [q EXCEPT ![i].progress = 9]

\* Variant of on_upload_ok that completes the item that has been Uploading
\* the longest, whichever task finished.
on_upload_ok_front(q, id) ==
    IF \E i \in Indexes(q) : IsUploading(q[i])
    THEN LET i == CHOOSE k \in Indexes(q) :
                    IsUploading(q[k]) /\ \A j \in 1..(k - 1) : ~IsUploading(q[j])
         IN [q EXCEPT ![i] = complete_upload(q[i])]
    ELSE q

\* if let Some(item) = q.get_item_mut_by_id(item_id) { item.complete_upload() }
on_upload_ok(q, id) ==
    LET i == get_item_mut_by_id(q, id) IN
    IF i = 0 THEN q ELSE [q EXCEPT ![i] = complete_upload(q[i])]

\* if let Some(item) = q.get_item_mut_by_id(item_id) { item.fail_upload(..) }
on_upload_err(q, id, error) ==
    LET i == get_item_mut_by_id(q, id) IN
    IF i = 0 THEN q ELSE [q EXCEPT ![i] = fail_upload(q[i], error)]

\* What a call of the model leaves in `last`.
Call(op, file_path, id, res, dir_ok) ==
    [op |-> op, file_path |-> file_path, id |-> id, res |-> res, dir_ok |-> dir_ok,
     code |-> "", old |-> "", log |-> << >>, kind |-> "", paths |-> << >>,
     args |-> << >>, ret |-> << >>]

\* What the watcher leaves in `last`: the kind of the event handled and the
\* paths it reported, or a callback and the path it was called with.
EventCall(kind, paths) ==
    [Call(IF kind = "callback" THEN "callback" ELSE "event", "", 0, "", FALSE)
        EXCEPT !.kind = kind, !.paths = paths]

\* What an iteration of the tick loop leaves in `last`: the id of the item it
\* claimed, 0 when it claimed none.
TickCall(spawned) ==
    Call("tick", "", IF spawned = {} THEN 0 ELSE (CHOOSE t \in spawned : TRUE).id,
         "", FALSE)

\* What a call of update_event_code(new_code) on the value old leaves in `last`.
CodeCall(new_code, old, log) ==
    [Call("update_event_code", "", 0, "", FALSE) EXCEPT
        !.code = new_code, !.old = old, !.log = log]

\* What a call of one of the queue's clear operations leaves in `last`: how
\* many items it removed.
ClearCall(op, removed) == Call(op, "", removed, "", FALSE)

\* Left in `last` by the steps that return nothing to a caller.
Other == Call("other", "", 0, "", FALSE)

\* What a call of FileWatcher::new leaves in `last`: what it met (args) and
\* what it returned and logged.
NewCall(args, r) ==
    [Call("new", "", 0, IF r.ok THEN "Ok" ELSE r.err, FALSE) EXCEPT
        !.args = args, !.log = r.log]

\* MacUploaderApp.file_watcher with the thread it spawned: held says that
\* the field holds a FileWatcher, subscribed that the native subscription
\* is installed (and the callback with the channel's Sender alive), thread
\* that the delivery thread has been spawned and has not ended.
NoWatcher == [held |-> FALSE, subscribed |-> FALSE, thread |-> FALSE]
Watching == [held |-> TRUE, subscribed |-> TRUE, thread |-> TRUE]

\* The file name of the path the pipeline carries.
PipeNames == {file_name(p) : p \in FsPaths}

\* The PathBuf with this file name.
path_buf(name) == CHOOSE p \in Paths : file_name(p) = name

\* The watcher's history before anything was reported.
NoLog ==
    [errors |-> 0, notified |-> [n \in PipeNames |-> 0],
     emitted |-> [n \in PipeNames |-> 0]]

\* The user's settings: MacUploaderApp.api_endpoint, api_key and
\* watch_folder.
Settings == [api_endpoint : Endpoints, api_key : ApiKeys, watch_folder : Folders]

\* The settings read from the configuration file of the first installation.
FirstSettings ==
    [api_endpoint |-> "https://a", api_key |-> "key-a", watch_folder |-> "dir-a"]

\* ApiClient::new(base_url, api_key)
ApiClientNew(base_url, api_key) == [base_url |-> base_url, api_key |-> api_key]

\* UploadManager::new: the fields of the manager that no method assigns.
UploadManagerNew(api_client, watch_folder, api_key) ==
    [api_client |-> api_client, watch_folder |-> watch_folder,
     api_key |-> api_key]

\* What an upload is made with under these settings: the transport client,
\* the credential and the folder.
Uses(settings) ==
    UploadManagerNew(ApiClientNew(settings.api_endpoint, settings.api_key),
                     settings.watch_folder, settings.api_key)

\* MacUploaderApp::new with these settings: api_client: None,
\* upload_manager: None.  History: session is the settings of the last
\* start_watching(), None while the application is not watching, and edits
\* the number of times the user has changed the settings.
AppNew(settings) ==
    [api_endpoint |-> settings.api_endpoint, api_key |-> settings.api_key,
     watch_folder |-> settings.watch_folder, api_client |-> None,
     upload_manager |-> None, session |-> None, edits |-> 0]

\* The settings the application holds.
SettingsOf(a) ==
    [api_endpoint |-> a.api_endpoint, api_key |-> a.api_key,
     watch_folder |-> a.watch_folder]

\* start_watching() up to the task it spawns for manager.start(): the
\* transport client is created anew from the settings, the manager only if
\* the application holds none.
start_watching(a) ==
    LET client == ApiClientNew(a.api_endpoint, a.api_key)
        manager == IF a.upload_manager = None
                   THEN Some(UploadManagerNew(client, a.watch_folder, a.api_key))
                   ELSE a.upload_manager
    IN [a EXCEPT !.api_client = Some(client), !.upload_manager = manager,
                 !.session = Some(SettingsOf(a))]

\* stop_watching(): the manager and the client stay as they are.
stop_watching(a) == [a EXCEPT !.session = None]

\* What the tick loop hands to the task it spawns: the clones of the
\* api_client, watch_folder and api_key that start() cloned from the
\* manager's fields.
task_uses(a) == a.upload_manager[1]

\* Nobody is inside a call made under the queue's lock.
NoGuard == [holder |-> "", file_path |-> "", io |-> FALSE]

(* ------------------------------ actions ------------------------------- *)

\* The state after construction, the uploaded/ folder, the file watcher and
\* the settings aside.
InitQueue ==
    /\ items = << >>
    /\ nextId = 0
    /\ is_running = FALSE
    /\ loops = 0
    /\ tasks = {}
    /\ claimCount = [id \in AllIds |-> 0]
    /\ last = Other
    /\ uploadCount = [id \in AllIds |-> 0]
    /\ active_uploads = 0
    /\ event_code = "evt-a"
    /\ writer = ""
    /\ now = 0
    /\ src = [p \in BurstPaths |-> NoFile]
    /\ channel = << >>
    /\ file_events = << >>
    /\ pending = [p \in Paths |-> 0]
    /\ watchLog = NoLog
    /\ guard = NoGuard

\* The state after construction with the first installation's settings,
\* the uploaded/ folder and the file watcher aside.
InitBase ==
    /\ InitQueue
    /\ app = AppNew(FirstSettings)

\* MacUploaderApp::new: file_watcher: None, is_watching: false.
Init ==
    /\ InitBase
    /\ uploaded = {}
    /\ nextFile = 0
    /\ watcher = NoWatcher
    /\ is_watching = FALSE

\* q.add_file(path) under the queue lock, while fewer than cap items have
\* been created: what it does to the queue.
QueueAdd(file_path, cap) ==
    /\ ContainsPath(items, file_path) \/ nextId < cap
    /\ LET r == add_file(items, file_path, nextId + 1) IN
       /\ items' = r.items
       /\ nextId' = IF r.ret = 0 THEN nextId ELSE nextId + 1
       /\ last' = Call("add_file", file_path, r.ret, "", FALSE)
    /\ UNCHANGED <<is_running, loops, tasks, claimCount, uploadCount,
                   active_uploads, codeVars, app, fsVars, channel, watcher,
                   is_watching, file_events, watchLog>>

\* A producer that is not a task spawned by update() takes the queue's lock
\* and runs q.add_file(path), seen as one step.
AddFileUpTo(file_path, cap) ==
    /\ QueueAdd(file_path, cap)
    /\ UNCHANGED <<pending, guard>>

\* q.add_file(path) under the queue lock; both producers run this.
AddFile(file_path) == AddFileUpTo(file_path, MaxIds)

\* The task the application spawns for a path received from the watcher.
WatcherAdd == \E file_path \in Paths : AddFile(file_path)

\* One iteration of the initial directory scan's loop.
ScanAdd == \E file_path \in Paths : AddFile(file_path)

\* manager.start().  It takes &mut self, so it does not run while a call of
\* update_event_code is waiting.
Start ==
    \E dirOk \in BOOLEAN :
        LET r == start(is_running, loops, dirOk) IN
        /\ writer = ""
        /\ r.loops <= MaxLoops
        /\ is_running' = r.is_running
        /\ loops' = r.loops
        /\ last' = Call("start", "", 0, r.res, dirOk)
        /\ UNCHANGED <<items, nextId, tasks, claimCount, uploadCount,
                       active_uploads, codeVars, fsVars, channel, appVars>>

\* manager.stop(), which takes &mut self as start() does.
Stop ==
    /\ writer = ""
    /\ is_running' = stop(is_running)
    /\ last' = Other
    /\ UNCHANGED <<items, nextId, loops, tasks, claimCount, uploadCount,
                   active_uploads, codeVars, fsVars, channel, appVars>>

\* One iteration of one of the spawned tick loops.
Tick ==
    /\ loops >= 1
    /\ LET r == tick(items, claimCount) IN
       /\ \A t \in r.spawned : t.n <= MaxClaims
       /\ items' = r.items
       /\ tasks' = tasks \cup r.spawned
       /\ claimCount' = [id \in AllIds |->
              claimCount[id] + Cardinality({t \in r.spawned : t.id = id})]
       /\ last' = TickCall(r.spawned)
    /\ UNCHANGED <<nextId, is_running, loops, uploadCount, active_uploads,
                   codeVars, fsVars, channel, appVars>>

\* The first poll of a spawned task: event_code.read().await returns the
\* read guard unless a writer is waiting for the lock.
TaskBegin ==
    \E t \in tasks :
        /\ t.pc = "spawned"
        /\ writer = ""
        /\ tasks' = (tasks \ {t}) \cup {task_begin(t, event_code)}
        /\ last' = Other
        /\ UNCHANGED <<items, nextId, is_running, loops, claimCount,
                       uploadCount, active_uploads, codeVars, fsVars,
                       channel, appVars>>

\* The task runs upload_and_move_file: upload_photo returns, and after an
\* Ok the file is renamed into uploaded/.  What the two return is chosen
\* freely and the folders are left out of the picture.
TaskUpload ==
    \E t \in tasks, apiOk \in BOOLEAN, moveOk \in BOOLEAN :
        /\ t.pc = "uploading"
        /\ tasks' = (tasks \ {t}) \cup {upload_and_move_file(t, apiOk, moveOk)}
        /\ uploadCount' = [uploadCount EXCEPT ![t.id] = @ + 1]
        /\ last' = Other
        /\ UNCHANGED <<items, nextId, is_running, loops, claimCount,
                       active_uploads, codeVars, fsVars, channel, appVars>>

\* After the move: progress 0.9 under the queue lock, then return Ok(response).
TaskProgress ==
    \E t \in tasks :
        /\ t.pc = "moved"
        /\ items' = mark_moved(items, t.id)
        /\ tasks' = (tasks \ {t}) \cup {[t EXCEPT !.pc = "ok"]}
        /\ last' = Other
        /\ UNCHANGED <<nextId, is_running, loops, claimCount, uploadCount,
                       active_uploads, codeVars, fsVars, channel, appVars>>

\* match result { Ok(response) => .. }: the task's last queue update, after
\* which the task ends and drops its read guard.
TaskComplete ==
    \E t \in tasks :
        /\ t.pc = "ok"
        /\ items' = on_upload_ok(items, t.id)
        /\ tasks' = tasks \ {t}
        /\ last' = Other
        /\ UNCHANGED <<nextId, is_running, loops, claimCount, uploadCount,
                       active_uploads, codeVars, fsVars, channel, appVars>>

\* match result { Err(e) => .. }: the task's last queue update, after which
\* the task ends and drops its read guard.
TaskFail ==
    \E t \in tasks :
        /\ t.pc = "failed"
        /\ items' = on_upload_err(items, t.id, t.err)
        /\ tasks' = tasks \ {t}
        /\ last' = Other
        /\ UNCHANGED <<nextId, is_running, loops, claimCount, uploadCount,
                       active_uploads, codeVars, fsVars, channel, appVars>>

\* queue.clear_completed() under the queue lock
ClearCompleted ==
    /\ items' = clear_completed(items)
    /\ last' = ClearCall("clear_completed", Len(items) - Len(items'))
    /\ UNCHANGED <<nextId, is_running, loops, tasks, claimCount, uploadCount,
                   active_uploads, codeVars, fsVars, channel, appVars>>

\* queue.clear_failed() under the queue lock
ClearFailed ==
    /\ items' = clear_failed(items)
    /\ last' = ClearCall("clear_failed", Len(items) - Len(items'))
    /\ UNCHANGED <<nextId, is_running, loops, tasks, claimCount, uploadCount,
                   active_uploads, codeVars, fsVars, channel, appVars>>

\* queue.clear_all() under the queue lock
ClearAll ==
    /\ items' = clear_all(items)
    /\ last' = ClearCall("clear_all", Len(items) - Len(items'))
    /\ UNCHANGED <<nextId, is_running, loops, tasks, claimCount, uploadCount,
                   active_uploads, codeVars, fsVars, channel, appVars>>

\* queue.remove_item(id) under the queue lock
RemoveItem ==
    \E id \in Ids :
        LET r == remove_item(items, id) IN
        /\ items' = r.items
        /\ last' = Call("remove_item", "", id, IF r.ret THEN "Some" ELSE "None",
                        FALSE)
        /\ UNCHANGED <<nextId, is_running, loops, tasks, claimCount,
                       uploadCount, active_uploads, codeVars, fsVars, channel,
                       appVars>>

Next ==
    \/ WatcherAdd
    \/ ScanAdd
    \/ Start
    \/ Stop
    \/ Tick
    \/ TaskBegin
    \/ TaskUpload
    \/ TaskProgress
    \/ TaskComplete
    \/ TaskFail
    \/ ClearCompleted
    \/ ClearFailed
    \/ ClearAll

Spec == Init /\ [][Next]_vars

\* The manager at work while items are taken out of the queue, whatever
\* their status.
OrphanNext ==
    \/ WatcherAdd
    \/ Start
    \/ Tick
    \/ TaskBegin
    \/ TaskUpload
    \/ TaskProgress
    \/ TaskComplete
    \/ TaskFail
    \/ ClearCompleted
    \/ ClearFailed
    \/ ClearAll
    \/ RemoveItem

OrphanSpec == Init /\ [][OrphanNext]_vars

(* ------------------------- update_event_code -------------------------- *)

\* manager.update_event_code(new_event_code) is called and asks for the
\* write guard.  The application calls it under the manager's Mutex, so one
\* call is under way at a time.
UpdateEventCodeCall ==
    \E new_code \in Codes :
        /\ writer = ""
        /\ writer' = new_code
        /\ last' = Other
        /\ UNCHANGED <<items, nextId, is_running, loops, tasks, claimCount,
                       uploadCount, active_uploads, event_code, fsVars,
                       channel, appVars>>

\* write().await returns once no read guard is held, and the call runs to
\* its end.
UpdateEventCodeWrite ==
    /\ writer # ""
    /\ Readers(tasks) = {}
    /\ LET r == update_event_code(event_code, writer) IN
       /\ event_code' = r.event_code
       /\ last' = CodeCall(writer, event_code, r.log)
    /\ writer' = ""
    /\ UNCHANGED <<items, nextId, is_running, loops, tasks, claimCount,
                   uploadCount, active_uploads, fsVars, channel, appVars>>

\* The manager at work while the user edits the event code.
CodeNext ==
    \/ WatcherAdd
    \/ Start
    \/ Tick
    \/ TaskBegin
    \/ TaskUpload
    \/ TaskProgress
    \/ TaskComplete
    \/ TaskFail
    \/ UpdateEventCodeCall
    \/ UpdateEventCodeWrite

CodeSpec == Init /\ [][CodeNext]_vars

(* ----------------- the watch folder and uploaded/ --------------------- *)

\* The state after construction in a watch folder whose uploaded/ folder may
\* hold a photo.jpg moved there by a previous session.
FsInit ==
    /\ InitBase
    /\ uploaded \in {{}, {[name |-> new_path("photo.jpg"), file |-> OldFile]}}
    /\ nextFile = 0
    /\ watcher = NoWatcher
    /\ is_watching = FALSE

\* The camera writes a new file into the watch folder.
FileCreated ==
    \E file_path \in FsPaths :
        /\ src[file_path] = NoFile
        /\ nextFile < Len(NewFiles)
        /\ nextFile' = nextFile + 1
        /\ src' = [src EXCEPT ![file_path] = NewFiles[nextFile + 1]]
        /\ last' = Other
        /\ UNCHANGED <<items, nextId, is_running, loops, tasks, claimCount,
                       uploadCount, active_uploads, codeVars, now, uploaded,
                       channel, appVars>>

\* The user removes a file from the watch folder.
FileRemoved ==
    \E file_path \in FsPaths :
        /\ src[file_path] # NoFile
        /\ src' = [src EXCEPT ![file_path] = NoFile]
        /\ last' = Other
        /\ UNCHANGED <<items, nextId, is_running, loops, tasks, claimCount,
                       uploadCount, active_uploads, codeVars, app, now, uploaded,
                       nextFile, channel, watcher, is_watching, file_events, pending,
          watchLog, guard>>

\* A second of the wall clock passes.
Tock ==
    /\ now + 1 \in Seconds
    /\ now' = now + 1
    /\ last' = Other
    /\ UNCHANGED <<items, nextId, is_running, loops, tasks, claimCount,
                   uploadCount, active_uploads, codeVars, app, src, uploaded,
                   nextFile, channel, watcher, is_watching, file_events, pending,
          watchLog, guard>>

\* The task the application spawns for a path received from the watcher,
\* which reports the paths at which it saw a file.
WatcherSees ==
    \E file_path \in FsPaths : src[file_path] # NoFile /\ AddFile(file_path)

\* The task runs upload_and_move_file on the folders: upload_photo fails
\* when it cannot read the file and otherwise returns what the service
\* answers (httpOk); after an Ok the file is renamed into uploaded/ under
\* final_path, unless the rename fails (renameOk) for a reason of its own.
TaskUploadFs ==
    \E t \in tasks, httpOk \in BOOLEAN, renameOk \in BOOLEAN :
        LET apiOk == src[t.file_path] # NoFile /\ httpOk
            t2 == upload_and_move_file(t, apiOk, renameOk)
            name == final_path(uploaded, t.file_path, now)
            r == rename(src, uploaded, t.file_path, name)
        IN
        /\ t.pc = "uploading"
        /\ IF t2.pc = "moved"
           THEN /\ src' = r.src
                /\ uploaded' = r.uploaded
                /\ tasks' = (tasks \ {t}) \cup
                       {[t2 EXCEPT !.file = src[t.file_path], !.dest = Some(name)]}
           ELSE /\ tasks' = (tasks \ {t}) \cup {t2}
                /\ UNCHANGED <<src, uploaded>>
        /\ uploadCount' = [uploadCount EXCEPT ![t.id] = @ + 1]
        /\ last' = Other
        /\ UNCHANGED <<items, nextId, is_running, loops, claimCount,
                       active_uploads, codeVars, now, nextFile,
                       channel, appVars>>

\* The manager at work on the folders: files come and go, paths arrive from
\* the watcher, the queue is cleared from time to time.
FsNext ==
    \/ FileCreated
    \/ FileRemoved
    \/ Tock
    \/ WatcherSees
    \/ Start
    \/ Tick
    \/ TaskBegin
    \/ TaskUploadFs
    \/ TaskProgress
    \/ TaskComplete
    \/ TaskFail
    \/ ClearAll

FsSpec == FsInit /\ [][FsNext]_vars

(* --------------------------- the file watcher ------------------------- *)

\* Variant of on_event that sends a path one event reports twice once.
on_event_once(kind, paths) ==
    IF kind \in {"Create", "Modify"}
    THEN SelectSeq([i \in 1..Len(paths) |->
                      IF \E j \in 1..(i - 1) : paths[j] = paths[i]
                      THEN [paths[i] EXCEPT !.is_file = FALSE] ELSE paths[i]],
                   LAMBDA p : p.is_file /\ is_image_file(p.name))
    ELSE << >>

\* for path in event.paths { if path.is_file() && is_image_file(&path)
\* { tx.send(path) } } for Create and Modify events; nothing for the others.
on_event(kind, paths) ==
    IF kind \in {"Create", "Modify"}
    THEN SelectSeq(paths, LAMBDA p : p.is_file /\ is_image_file(p.name))
    ELSE << >>

\* Variant of FileWatcher::new that gives up when the write probe fails.
new_probe_fails(path_kind, probe, created, watched) ==
    IF path_kind = "missing"
    THEN [ok |-> FALSE, err |-> "Watch path does not exist", log |-> << >>,
          watcher |-> NoWatcher]
    ELSE IF path_kind # "dir"
    THEN [ok |-> FALSE, err |-> "Watch path is not a directory", log |-> << >>,
          watcher |-> NoWatcher]
    ELSE IF ~probe
    THEN [ok |-> FALSE, err |-> "not writable", log |-> << >>,
          watcher |-> NoWatcher]
    ELSE IF ~created \/ ~watched
    THEN [ok |-> FALSE, err |-> "notify", log |-> <<"writable">>,
          watcher |-> NoWatcher]
    ELSE [ok |-> TRUE, err |-> "", log |-> <<"writable">>, watcher |-> Watching]

\* FileWatcher::new(path, callback).  path_kind is what the file system holds
\* at path, probe whether fs::write of the test file returns Ok, created
\* whether RecommendedWatcher::new does and watched whether watcher.watch
\* does.  An Err of one of the two `?` drops the channel and the native
\* watcher; the thread is spawned after them.
new(path_kind, probe, created, watched) ==
    LET log == IF probe THEN <<"writable">> ELSE <<"may not be writable">> IN
    IF path_kind = "missing"
    THEN [ok |-> FALSE, err |-> "Watch path does not exist", log |-> << >>,
          watcher |-> NoWatcher]
    ELSE IF path_kind # "dir"
    THEN [ok |-> FALSE, err |-> "Watch path is not a directory", log |-> << >>,
          watcher |-> NoWatcher]
    ELSE IF ~created \/ ~watched
    THEN [ok |-> FALSE, err |-> "notify", log |-> log, watcher |-> NoWatcher]
    ELSE [ok |-> TRUE, err |-> "", log |-> log, watcher |-> Watching]

\* Variant of the callback's Err arm that gives the subscription up.
on_error_terminates(w) == [w EXCEPT !.subscribed = FALSE]

\* The callback's Err(e) arm: it prints the error and a hint.
on_error(w) == w

\* Dropping the FileWatcher.  Dropping _watcher stops the native subscription
\* and drops the callback with the channel's only Sender; dropping
\* _thread_handle detaches the thread, it is not joined.
drop(w) == [w EXCEPT !.held = FALSE, !.subscribed = FALSE]

\* How many of the paths have this name and are files.
Reports(paths, name) ==
    Cardinality({i \in 1..Len(paths) : paths[i].name = name /\ paths[i].is_file})

\* The history of an event: what Create and Modify events reported of files
\* and what the callback sent, per name.
log_event(log, kind, paths) ==
    [log EXCEPT
        !.notified = [n \in DOMAIN @ |->
                        IF kind \in {"Create", "Modify"}
                        THEN @[n] + Reports(paths, n) ELSE @[n]],
        !.emitted = [n \in DOMAIN @ |-> @[n] + Reports(on_event(kind, paths), n)]]

\* start_watching() from its call of start_file_watcher on, while no
\* watcher is held and the thread of the last one has stopped.  (The
\* task it spawns for manager.start() is Start, the scan it spawns is
\* ScanAdd.)  is_watching is set whatever FileWatcher::new returns.
\* settings is what the call does to the application's settings.
StartWatchingWith(settings) ==
    \E path_kind \in PathKinds, probe \in BOOLEAN, created \in BOOLEAN,
       watched \in BOOLEAN :
        LET r == new(path_kind, probe, created, watched) IN
        /\ ~is_watching
        /\ ~watcher.held /\ ~watcher.thread
        /\ watcher' = IF r.ok THEN r.watcher ELSE watcher
        /\ is_watching' = TRUE
        /\ last' = NewCall(<<path_kind, probe, created, watched>>, r)
        /\ app' = settings
        /\ UNCHANGED <<items, nextId, is_running, loops, tasks, claimCount,
                       uploadCount, active_uploads, codeVars, fsVars, channel,
                       file_events, pending, watchLog, guard>>

StartWatching == StartWatchingWith(app)

\* stop_watching(): self.file_watcher = None drops the watcher if there is
\* one.  (The task it spawns for manager.stop() is Stop.)  settings is
\* what the call does to the application's settings.
StopWatchingWith(settings) ==
    /\ is_watching
    /\ watcher' = IF watcher.held THEN drop(watcher) ELSE watcher
    /\ is_watching' = FALSE
    /\ last' = Call("stop_watching", "", 0, "", FALSE)
    /\ app' = settings
    /\ UNCHANGED <<items, nextId, is_running, loops, tasks, claimCount,
                   uploadCount, active_uploads, codeVars, fsVars, channel,
                   file_events, pending, watchLog, guard>>

StopWatching == StopWatchingWith(app)

\* The notify callback runs on one event whose paths are among these;
\* counted says whether the history keeps count of it.
WatchEventOf(reported, counted) ==
    \E kind \in EventKinds, paths \in reported :
        /\ watcher.subscribed
        /\ Len(channel) + Len(on_event(kind, paths)) <= MaxChannel
        /\ channel' = channel \o on_event(kind, paths)
        /\ IF counted
           THEN /\ watchLog' = log_event(watchLog, kind, paths)
                /\ \A n \in DOMAIN watchLog.notified :
                      watchLog'.notified[n] <= MaxNotify
           ELSE UNCHANGED watchLog
        /\ last' = EventCall(kind, paths)
        /\ UNCHANGED <<items, nextId, is_running, loops, tasks, claimCount,
                       uploadCount, active_uploads, codeVars, app, fsVars, watcher,
                       is_watching, file_events, pending, guard>>

WatchEvent == WatchEventOf(EventPaths, FALSE)

\* The notify callback runs on an error of the subscription.
WatchError ==
    /\ watcher.subscribed
    /\ watchLog.errors < MaxErrors
    /\ watcher' = on_error(watcher)
    /\ watchLog' = [watchLog EXCEPT !.errors = @ + 1]
    /\ last' = [Call("watch_error", "", 0, "", FALSE) EXCEPT
                    !.log = <<"Watch error">>]
    /\ UNCHANGED <<items, nextId, is_running, loops, tasks, claimCount,
                   uploadCount, active_uploads, codeVars, app, fsVars, channel,
                   is_watching, file_events, pending, guard>>

\* The delivery thread takes a path from the channel and hands it to the
\* callback; to_app says whether the callback is the application's, which
\* sends the path into the file event channel, or one that keeps nothing.
DeliverWith(to_app) ==
    /\ watcher.thread
    /\ channel # << >>
    /\ to_app => Len(file_events) < MaxChannel
    /\ channel' = Tail(channel)
    /\ file_events' = IF to_app THEN Append(file_events, Head(channel))
                      ELSE file_events
    /\ last' = EventCall("callback", <<Head(channel)>>)
    /\ UNCHANGED <<items, nextId, is_running, loops, tasks, claimCount,
                   uploadCount, active_uploads, codeVars, app, fsVars, watcher,
                   is_watching, pending, watchLog, guard>>

Deliver == DeliverWith(FALSE)

\* rx.recv() returns Err once the Sender is dropped and the channel is
\* empty: the delivery thread leaves its loop and ends.
ThreadStop ==
    /\ watcher.thread /\ ~watcher.subscribed
    /\ channel = << >>
    /\ watcher' = [watcher EXCEPT !.thread = FALSE]
    /\ last' = Other
    /\ UNCHANGED <<items, nextId, is_running, loops, tasks, claimCount,
                   uploadCount, active_uploads, codeVars, app, fsVars, channel,
                   is_watching, file_events, pending, watchLog, guard>>

\* The paths update() found in the file event channel that are this path.
Received(events, file_path) ==
    Cardinality({i \in 1..Len(events) : path_buf(events[i].name) = file_path})

\* update(), where it handles the file events: it takes every path out of
\* the channel and, if the application is watching, spawns a task for it
\* that will insert it into the queue.
Update ==
    /\ file_events # << >>
    /\ file_events' = << >>
    /\ pending' = IF is_watching
                  THEN [p \in Paths |-> pending[p] + Received(file_events, p)]
                  ELSE pending
    /\ last' = [Call("update", "", 0, "", FALSE) EXCEPT !.paths = file_events]
    /\ UNCHANGED <<items, nextId, is_running, loops, tasks, claimCount,
                   uploadCount, active_uploads, codeVars, app, fsVars, channel,
                   watcher, is_watching, watchLog, guard>>

\* A task spawned by update() runs: it takes the queue's lock and calls
\* q.add_file(file_path).
AddTask ==
    \E file_path \in Paths :
        /\ pending[file_path] > 0
        /\ pending' = [pending EXCEPT ![file_path] = @ - 1]
        /\ QueueAdd(file_path, MaxIds)
        /\ UNCHANGED guard

\* The state once start_watching() has returned with a watcher.
WatchInit ==
    /\ InitBase
    /\ uploaded = {}
    /\ nextFile = 0
    /\ watcher = Watching
    /\ is_watching = TRUE

WatchNext ==
    \/ WatchEvent
    \/ Deliver

WatchSpec == WatchInit /\ [][WatchNext]_vars

\* Watchers are created, report events and errors, and are dropped.
TeardownNext ==
    \/ StartWatching
    \/ WatchEventOf(TeardownPaths, FALSE)
    \/ WatchError
    \/ Deliver
    \/ StopWatching
    \/ ThreadStop

TeardownSpec == Init /\ [][TeardownNext]_vars

\* The paths reported to the pipeline, and its events: one path, or the
\* same path twice.
PipePaths == [name : PipeNames, is_file : BOOLEAN]
PipeEvents == {<<p>> : p \in PipePaths} \cup {<<p, p>> : p \in PipePaths}

\* The pipeline from the native watcher to the queue, while watching.
PipeNext ==
    \/ WatchEventOf(PipeEvents, TRUE)
    \/ DeliverWith(TRUE)
    \/ Update
    \/ AddTask

PipeSpec == WatchInit /\ [][PipeNext]_vars

(* ----------------------- the watch sessions --------------------------- *)

\* The user presses Start Watching, which a connection test that succeeded
\* has enabled: start_watching().
StartSession == StartWatchingWith(start_watching(app))

\* The user presses Stop Watching: stop_watching().
StopSession == StopWatchingWith(stop_watching(app))

\* The user edits the API endpoint or the API key, and update() finds them
\* different from the previous ones: it stops watching if the application
\* is watching.
ChangeApiSettings ==
    \E endpoint \in Endpoints, key \in ApiKeys :
        LET a == [app EXCEPT !.api_endpoint = endpoint, !.api_key = key,
                             !.edits = @ + 1]
        IN
        /\ <<endpoint, key>> # <<app.api_endpoint, app.api_key>>
        /\ app.edits < MaxEdits
        /\ IF is_watching
           THEN StopWatchingWith(stop_watching(a))
           ELSE /\ app' = a
                /\ last' = Other
                /\ UNCHANGED <<items, nextId, is_running, loops, tasks,
                               claimCount, uploadCount, active_uploads,
                               codeVars, fsVars, channel, watcher, is_watching,
                               file_events, pending, watchLog, guard>>

\* select_folder(): the user picks another folder, and start_file_watcher
\* puts a watcher of it in the place of the one held, if FileWatcher::new
\* returns one.  The thread of a watcher dropped this way is not followed.
SelectFolder ==
    \E folder \in Folders, path_kind \in PathKinds, created \in BOOLEAN :
        LET r == new(path_kind, TRUE, created, TRUE) IN
        /\ folder # app.watch_folder
        /\ app.edits < MaxEdits
        /\ app' = [app EXCEPT !.watch_folder = folder, !.edits = @ + 1]
        /\ watcher' = IF r.ok THEN r.watcher ELSE watcher
        /\ last' = NewCall(<<path_kind, TRUE, created, TRUE>>, r)
        /\ UNCHANGED <<items, nextId, is_running, loops, tasks, claimCount,
                       uploadCount, active_uploads, codeVars, fsVars, channel,
                       is_watching, file_events, pending, watchLog, guard>>

\* The task start_watching() spawned takes the manager's Mutex and runs
\* manager.start().
ManagerStart == app.upload_manager # None /\ Start

\* The task stop_watching() spawned takes the manager's Mutex and runs
\* manager.stop().
ManagerStop == app.upload_manager # None /\ Stop

\* The initial scan finds the photo of the watch folder.
ScanPhoto == \E file_path \in FsPaths : AddFile(file_path)

\* Watch sessions are started and stopped while the user changes the
\* settings, and the manager dispatches what the scans find; the tasks are
\* followed up to their dispatch.
ConfigNext ==
    \/ StartSession
    \/ StopSession
    \/ ChangeApiSettings
    \/ SelectFolder
    \/ ThreadStop
    \/ ManagerStart
    \/ ManagerStop
    \/ ScanPhoto
    \/ Tick

ConfigSpec == Init /\ [][ConfigNext]_vars

(* ------------------------ the queue's lock ---------------------------- *)

\* A producer takes the queue's lock and calls q.add_file(path).  For a
\* path the queue holds the call returns None and the lock is released;
\* for another one the call goes on into generate_thumbnail, where
\* image::open reads the file while the caller still holds the lock.
AddBegin ==
    \E file_path \in Paths :
        /\ guard = NoGuard
        /\ IF ContainsPath(items, file_path)
           THEN QueueAdd(file_path, MaxIds) /\ UNCHANGED <<pending, guard>>
           ELSE /\ nextId < MaxIds
                /\ guard' = [holder |-> "add_file", file_path |-> file_path,
                             io |-> TRUE]
                /\ last' = Call("image::open", file_path, 0, "", FALSE)
                /\ UNCHANGED <<items, nextId, is_running, loops, tasks,
                               claimCount, uploadCount, active_uploads,
                               codeVars, app, fsVars, channel, watcher, is_watching,
                               file_events, pending, watchLog>>

\* image::open returns: add_file attaches the thumbnail if there is one,
\* pushes the item and returns, and the producer releases the lock.
AddEnd ==
    /\ guard.holder = "add_file"
    /\ QueueAdd(guard.file_path, MaxIds)
    /\ guard' = NoGuard
    /\ UNCHANGED pending

\* The window shows the queue's statistics: try_lock() and, if it returns
\* the lock, get_stats().
ShowStats ==
    /\ last' = IF guard = NoGuard
               THEN [Call("get_stats", "", 0, "", FALSE) EXCEPT
                        !.ret = Some(get_stats(items))]
               ELSE Call("try_lock", "", 0, "Err", FALSE)
    /\ UNCHANGED <<items, nextId, is_running, loops, tasks, claimCount,
                   uploadCount, active_uploads, codeVars, fsVars, channel,
                   appVars>>

\* A step that begins with queue.lock().await waits while the lock is held.
WithLock(step) == guard = NoGuard /\ step

\* The holders of the queue's lock and the steps of the tasks between them.
LockNext ==
    \/ AddBegin
    \/ AddEnd
    \/ ShowStats
    \/ Start
    \/ WithLock(Tick)
    \/ TaskBegin
    \/ TaskUpload
    \/ WithLock(TaskProgress)
    \/ WithLock(TaskComplete)
    \/ WithLock(TaskFail)

LockSpec == Init /\ [][LockNext]_vars

(* --------------------------- the three locks -------------------------- *)

\* What is asked of a lock: lock() of the queue's Mutex and of the manager's
\* Mutex, read() and write() of the event code's RwLock.
QueueLock == [lock |-> "queue", mode |-> "lock"]
ManagerLock == [lock |-> "manager", mode |-> "lock"]
CodeRead == [lock |-> "event_code", mode |-> "read"]
CodeWrite == [lock |-> "event_code", mode |-> "write"]

\* The tasks of the runtime that take locks: the tick loop, the producer
\* that inserts a path, the tasks the application spawns for
\* update_event_code, start() and stop(), and the upload tasks.
Proc(kind, id) == [kind |-> kind, id |-> id]
Procs ==
    {Proc(kind, 0) : kind \in {"tick", "producer", "update", "start", "stop"}}
        \cup {Proc("task", t.id) : t \in tasks}

\* Variant of locks in which the tick loop reads the event code for the
\* task it is about to spawn while it holds the queue's lock.
locks_snapshot_at_claim(p) ==
    IF p.kind = "tick"
    THEN [holds |-> IF loops >= 1 THEN {QueueLock} ELSE {},
          wants |-> IF loops >= 1 THEN {CodeRead} ELSE {}]
    ELSE IF p.kind = "producer"
    THEN IF guard.holder = "add_file"
         THEN [holds |-> {QueueLock}, wants |-> {}]
         ELSE [holds |-> {}, wants |-> {QueueLock}]
    ELSE IF p.kind = "update"
    THEN IF writer # ""
         THEN [holds |-> {ManagerLock}, wants |-> {CodeWrite}]
         ELSE [holds |-> {}, wants |-> {ManagerLock}]
    ELSE IF p.kind \in {"start", "stop"}
    THEN [holds |-> {}, wants |-> {ManagerLock}]
    ELSE LET t == CHOOSE u \in tasks : u.id = p.id IN
         IF t.pc = "spawned" THEN [holds |-> {}, wants |-> {CodeRead}]
         ELSE IF t.pc = "uploading" THEN [holds |-> {CodeRead}, wants |-> {}]
         ELSE [holds |-> {CodeRead}, wants |-> {QueueLock}]

\* The locks a task of the runtime holds where it stands, and the one it
\* asks for there.
\*   tick loop: queue.lock() with nothing held; it asks for nothing while
\*     it holds the lock.
\*   producer: upload_queue.lock(), and inside add_file it holds the lock
\*     through image::open and asks for nothing.
\*   update: manager.lock(), then event_code.write() with the manager held.
\*   start, stop: manager.lock(); start()'s event_code.read() meets no
\*     writer, the writer being a holder of the manager's lock.
\*   upload task: event_code.read() with nothing held; the transport call
\*     and the move with the read guard; queue.lock() with the read guard.
locks(p) ==
    IF p.kind = "tick"
    THEN [holds |-> {}, wants |-> IF loops >= 1 THEN {QueueLock} ELSE {}]
    ELSE IF p.kind = "producer"
    THEN IF guard.holder = "add_file"
         THEN [holds |-> {QueueLock}, wants |-> {}]
         ELSE [holds |-> {}, wants |-> {QueueLock}]
    ELSE IF p.kind = "update"
    THEN IF writer # ""
         THEN [holds |-> {ManagerLock}, wants |-> {CodeWrite}]
         ELSE [holds |-> {}, wants |-> {ManagerLock}]
    ELSE IF p.kind \in {"start", "stop"}
    THEN [holds |-> {}, wants |-> {ManagerLock}]
    ELSE LET t == CHOOSE u \in tasks : u.id = p.id IN
         IF t.pc = "spawned" THEN [holds |-> {}, wants |-> {CodeRead}]
         ELSE IF t.pc = "uploading" THEN [holds |-> {CodeRead}, wants |-> {}]
         ELSE [holds |-> {CodeRead}, wants |-> {QueueLock}]

\* What q holds, or asks for, keeps the request w from being granted: a
\* Mutex has one holder, a write guard excludes every other guard, and
\* the RwLock gives out no read guard while a writer waits.
Excludes(q, w) ==
    \/ \E h \in locks(q).holds :
          h.lock = w.lock /\ (h.mode # "read" \/ w.mode # "read")
    \/ /\ w.mode = "read"
       /\ \E x \in locks(q).wants : x.lock = w.lock /\ x.mode = "write"

\* p waits for q.
WaitsFor(p, q) == p # q /\ \E w \in locks(p).wants : Excludes(q, w)

\* The tasks that p waits for, directly or through at most n others.
RECURSIVE Awaited(_, _)
Awaited(p, n) ==
    LET direct == {q \in Procs : WaitsFor(p, q)} IN
    IF n = 0 THEN direct
    ELSE direct \cup UNION {Awaited(q, n - 1) : q \in direct}

\* The manager at work with its three locks: paths are inserted, the loops
\* tick, the tasks run, the event code is updated, the manager is started
\* and stopped.
MutexNext ==
    \/ AddBegin
    \/ AddEnd
    \/ Start
    \/ Stop
    \/ WithLock(Tick)
    \/ TaskBegin
    \/ TaskUpload
    \/ WithLock(TaskProgress)
    \/ WithLock(TaskComplete)
    \/ WithLock(TaskFail)
    \/ UpdateEventCodeCall
    \/ UpdateEventCodeWrite

MutexSpec == Init /\ [][MutexNext]_vars

(* ------------------------- helpers of the claims ---------------------- *)

\* The positions of q that hold an item with this path.
WithPath(q, file_path) == {i \in Indexes(q) : q[i].file_path = file_path}

\* The step is a call of add_file for this path.
AddStep(file_path) == last'.op = "add_file" /\ last'.file_path = file_path

\* The step is a call of start().
StartStep == last'.op = "start"

\* The item ids the step moves from Queued to Uploading.
ClaimedNow ==
    {id \in Ids :
        /\ \E i \in Indexes(items) : items[i].id = id /\ IsQueued(items[i])
        /\ \E j \in Indexes(items') : items'[j].id = id /\ IsUploading(items'[j])}

\* The upload tasks the step spawns.
SpawnedNow == {t \in tasks' : \A u \in tasks : u.id # t.id \/ u.n # t.n}

\* The same task before and after a step.
SameTask(t, u) == t.id = u.id /\ t.n = u.n

\* The transitions the status of one item may make in one step.
AllowedTransition(s1, s2) ==
    \/ s1 = s2
    \/ s1.tag = "Queued" /\ s2.tag = "Uploading"
    \/ s1.tag = "Uploading" /\ s2.tag \in {"Completed", "Failed"}

(* -------------------------------- C1 ---------------------------------- *)

\* C1: single claim.  Over every interleaving of ticks (of one or more
\* loops), insertions, task steps and clears, every item id is claimed at
\* most once, and no two upload tasks exist for the same item id.
C1_SingleClaim ==
    /\ \A id \in Ids : claimCount[id] <= 1
    /\ \A t1 \in tasks : \A t2 \in tasks : t1.id = t2.id => t1 = t2

\* Two loops are alive, both items have been claimed and both tasks are in
\* flight.
C1_Witness ==
    /\ loops = 2
    /\ \A id \in Ids : claimCount[id] = 1
    /\ Cardinality(tasks) = 2

(* -------------------------------- C2 ---------------------------------- *)

\* C2: dedup invariant.  In every reachable state no two items of the queue
\* have the same source path.
C2_Dedup ==
    \A i \in Indexes(items) : \A j \in Indexes(items) :
        i # j => items[i].file_path # items[j].file_path

\* A producer has just been turned away for a path whose item is being
\* uploaded, while the queue holds a second item.
C2_Witness ==
    /\ last.op = "add_file" /\ last.id = 0
    /\ Len(items) = 2
    /\ \E i \in WithPath(items, last.file_path) : IsUploading(items[i])

(* -------------------------------- C3 ---------------------------------- *)

\* What C3 asks of one step.
C3_AddStep ==
    \A p \in Paths :
        AddStep(p) =>
            /\ WithPath(items, p) # {} => last'.id = 0 /\ items' = items
            /\ WithPath(items, p) = {} =>
                    /\ last'.id # 0
                    /\ Len(items') = Len(items) + 1
                    /\ SubSeq(items', 1, Len(items)) = items
            /\ Cardinality(WithPath(items', p)) = 1

\* C3: add(path) on a queue that holds an item with that path returns none
\* and leaves the queue as it was; on a queue that does not, it appends one
\* item and returns its id, so that after any add exactly one item has the
\* path and a second add of it returns no id.
C3_AddExistingIsNoop == [][C3_AddStep]_vars

\* The second of two insertions of a path has just returned none: the path's
\* item is still Queued and untouched.
C3_Witness ==
    /\ last.op = "add_file" /\ last.id = 0
    /\ \E i \in WithPath(items, last.file_path) :
          IsQueued(items[i]) /\ items[i].progress = 0

(* -------------------------------- C4 ---------------------------------- *)

\* What C4 asks of one step.
C4_Step ==
    /\ \A p \in Paths :
          AddStep(p) =>
              /\ (\E i \in Indexes(items) :
                      items[i].file_path = p /\ items[i].status \in Statuses)
                  => last'.id = 0 /\ items' = items
              /\ WithPath(items, p) = {} =>
                      /\ last'.id = nextId'
                      /\ items' = Append(items, items'[Len(items')])
                      /\ items'[Len(items')].file_path = p
                      /\ items'[Len(items')].id = last'.id
                      /\ IsQueued(items'[Len(items')])
    /\ ClearFailed =>
          /\ \A j \in Indexes(items') : ~IsFailed(items'[j])
          /\ \A p \in Paths :
                (\A i \in WithPath(items, p) : IsFailed(items[i]))
                    => WithPath(items', p) = {}
    /\ ClearAll => items' = << >>

\* C4: add(path) is turned away while an item for the path exists, whatever
\* its status; clear_failed leaves no Failed item and clear_all no item at
\* all, and an add of a path that no item holds creates a new Queued item
\* at the back of the queue.
C4_DedupAcrossStatuses == [][C4_Step]_vars

\* A path has just been turned away while its item is Failed.
C4_Witness ==
    /\ last.op = "add_file" /\ last.id = 0
    /\ \E i \in WithPath(items, last.file_path) : IsFailed(items[i])

(* -------------------------------- C5 ---------------------------------- *)

\* What C5 asks of one step.
C5_Step ==
    \A i \in Indexes(items) : \A j \in Indexes(items') :
        items[i].id = items'[j].id =>
            AllowedTransition(items[i].status, items'[j].status)

\* C5: the status of every item moves only along Queued -> Uploading ->
\* {Completed | Failed}: no step takes an item out of Completed or Failed,
\* back from Uploading to Queued, or from Queued straight to a terminal
\* status.
C5_MonotonicStatus == [][C5_Step]_vars

\* One item has Failed and another has Completed.
C5_Witness ==
    /\ \E i \in Indexes(items) : IsFailed(items[i])
    /\ \E j \in Indexes(items) : IsCompleted(items[j])

(* -------------------------------- C6 ---------------------------------- *)

\* C6: in every reachable state the counts of stats() add up:
\* queued + active + completed + failed = total = the number of items.
C6_StatsSum ==
    LET st == get_stats(items) IN
    /\ st.total = Len(items)
    /\ st.queued + st.active + st.completed + st.failed = st.total

\* A queue with one Failed item and one item being uploaded.
C6_Witness ==
    LET st == get_stats(items) IN st.failed = 1 /\ st.active = 1

(* -------------------------------- C7 ---------------------------------- *)

\* What C7 asks of one step.
C7_Step ==
    \A i \in Indexes(items) :
        items[i].id \in ClaimedNow => \A k \in 1..(i - 1) : ~IsQueued(items[k])

C7_QueuedAreLast ==
    \A i \in Indexes(items) : \A j \in Indexes(items) :
        (i < j /\ IsQueued(items[i])) => IsQueued(items[j])

\* C7: FIFO claiming.  A step that claims an item claims the earliest-
\* inserted Queued item, so no Queued item ever stands in front of an item
\* that has been claimed.
C7_FifoClaim == [][C7_Step]_vars /\ []C7_QueuedAreLast

\* The first item was claimed before the second, and the second has
\* completed while the first is still being uploaded.
C7_Witness ==
    /\ Len(items) = 2
    /\ IsUploading(items[1]) /\ IsCompleted(items[2])
    /\ items[1].id < items[2].id

(* -------------------------------- C8 ---------------------------------- *)

\* What C8 asks of one step.
C8_Step ==
    /\ Cardinality(ClaimedNow) <= 1
    /\ Cardinality(SpawnedNow) <= 1
    /\ {t.id : t \in SpawnedNow} = ClaimedNow

\* C8: one tick launches at most one upload task: no step moves more than
\* one item from Queued to Uploading or spawns more than one task, and the
\* task spawned is the one for the item claimed.
C8_OneClaimPerTick == [][C8_Step]_vars

\* A tick found two Queued items while a loop was alive and claimed only the
\* first: its task is spawned, the second item is still Queued.
C8_Witness ==
    /\ last.op = "tick" /\ last.id # 0
    /\ Len(items) = 2
    /\ IsUploading(items[1]) /\ IsQueued(items[2])
    /\ \E t \in tasks : t.id = items[1].id /\ t.pc = "spawned"

(* -------------------------------- C9 ---------------------------------- *)

\* What C9 asks of one step.
C9_Step ==
    (StartStep /\ is_running) =>
        /\ last'.res = "Ok"
        /\ UNCHANGED <<items, nextId, is_running, loops, tasks, claimCount>>

\* C9: start() on a manager that is already running returns Ok, launches no
\* further tick loop and changes nothing.
C9_StartIdempotent == [][C9_Step]_vars

\* start() has just returned Ok without launching a loop: the one loop alive
\* was launched before the tasks in flight were spawned.
C9_Witness ==
    /\ last.op = "start" /\ last.res = "Ok"
    /\ is_running /\ loops = 1
    /\ tasks # {}

(* -------------------------------- C10 --------------------------------- *)

\* What C10 asks of one step.
C10_Step ==
    (StartStep /\ ~is_running) =>
        IF last'.dir_ok
        THEN last'.res = "Ok" /\ loops' = loops + 1
        ELSE /\ last'.res = "Err"
             /\ UNCHANGED <<items, nextId, loops, tasks, claimCount>>

C10_NoLoopNoClaim ==
    loops = 0 =>
        /\ tasks = {}
        /\ \A id \in Ids : claimCount[id] = 0
        /\ \A i \in Indexes(items) : IsQueued(items[i])

\* C10: a start() that reaches the creation of the uploaded directory
\* returns an error and launches no tick loop when the directory cannot be
\* created, and launches one loop and returns Ok when it can; while no loop
\* has been launched no item is claimed.
C10_StartDirFailure == [][C10_Step]_vars /\ []C10_NoLoopNoClaim

\* start() has just failed on the directory: no loop exists and the item in
\* the queue is unclaimed.
C10_Witness ==
    /\ last.op = "start" /\ last.res = "Err" /\ ~last.dir_ok
    /\ loops = 0
    /\ items # << >>

(* -------------------------------- C11 --------------------------------- *)

\* The manager in use: paths arrive from the watcher, the manager is started
\* and stopped, the loops tick and the tasks run; nothing is cleared.
LoopNext ==
    \/ WatcherAdd
    \/ Start
    \/ Stop
    \/ Tick
    \/ TaskBegin
    \/ TaskUpload
    \/ TaskProgress
    \/ TaskComplete
    \/ TaskFail

\* A spawned loop wakes up every second for as long as the runtime lives, and
\* the runtime polls every task it was handed.
FairLoopSpec ==
    Init /\ [][LoopNext]_vars /\ WF_vars(Tick) /\ WF_vars(TaskBegin)

\* What C11 asks of one step.
C11_Step ==
    (is_running /\ ~is_running') =>
        UNCHANGED <<items, nextId, loops, tasks, claimCount, uploadCount>>

\* The item with this id is waiting in the queue of a stopped manager whose
\* loop was launched by an earlier start().
C11_QueuedWhileStopped(id) ==
    /\ ~is_running
    /\ loops >= 1
    /\ \E i \in Indexes(items) : items[i].id = id /\ IsQueued(items[i])

\* The item with this id has been claimed and its upload task has called
\* upload_photo.
C11_UploadStarted(id) ==
    /\ claimCount[id] = 1
    /\ \A t \in tasks : t.id = id => t.pc # "spawned"

\* C11: stop() only clears the running flag and leaves the tick loops alive:
\* an item that is Queued while the manager is stopped, whether it was added
\* before or after stop(), is still claimed by a loop of the earlier start()
\* and its upload is started.
C11_StopOnlyFlipsFlag ==
    /\ [][C11_Step]_vars
    /\ \A id \in Ids : C11_QueuedWhileStopped(id) ~> C11_UploadStarted(id)

\* A tick has just claimed an item although the manager is stopped.
C11_Witness ==
    /\ ~is_running
    /\ loops >= 1
    /\ last.op = "tick" /\ last.id # 0

(* -------------------------------- C12 --------------------------------- *)

\* One iteration of the initial directory scan's loop over a folder that
\* holds a burst of files.
ScanBurst == \E file_path \in BurstPaths : AddFileUpTo(file_path, MaxBurst)

\* A burst: the scan fills the queue, the manager is started, the loop ticks
\* and the tasks start their uploads, none of which returns.
BurstNext ==
    \/ ScanBurst
    \/ Start
    \/ Tick
    \/ TaskBegin

BurstSpec == Init /\ [][BurstNext]_vars

\* What C12 asks of one step.
C12_Step ==
    (last'.op = "tick" /\ get_next_queued_item(items) # 0) =>
        /\ last'.id = items[get_next_queued_item(items)].id
        /\ Len(get_active_items(items')) = Len(get_active_items(items)) + 1

\* C12: the ceiling on concurrent uploads is not enforced.  A tick that
\* finds a Queued item claims it, however many items are Uploading already,
\* and the counter behind can_start_upload() stays at 0, so that
\* can_start_upload() would answer true in any case; with more files than
\* max_concurrent_uploads and no upload finishing, more than
\* max_concurrent_uploads items are Uploading at once.
C12_CeilingNotEnforced ==
    /\ [][C12_Step]_vars
    /\ [](active_uploads = 0)
    /\ [](can_start_upload(active_uploads, max_concurrent_uploads))

\* Four items of the burst are Uploading at once: one more than the ceiling.
C12_Witness ==
    /\ Len(get_active_items(items)) > max_concurrent_uploads
    /\ Cardinality(tasks) > max_concurrent_uploads

(* -------------------------------- C13 --------------------------------- *)

\* The item ids whose status the step changes to a status with this tag.
Becomes(tag) ==
    {id \in Ids :
        \E i \in Indexes(items) : \E j \in Indexes(items') :
            /\ items[i].id = id /\ items'[j].id = id
            /\ items[i].status.tag # tag
            /\ items'[j].status.tag = tag}

\* The item with this id in the queue q.
ItemOf(q, id) == q[get_item_mut_by_id(q, id)]

\* What C13 asks of one step.
C13_Step ==
    \A id \in Becomes("Completed") :
        /\ ItemOf(items', id).progress = 10
        /\ uploadCount[id] = 1
        /\ \E t \in tasks :
              /\ t.id = id /\ t.pc = "ok" /\ t.file # NoFile
              /\ src'[t.file_path] # t.file
              /\ \E e \in uploaded' : e.file = t.file /\ Some(e.name) = t.dest

\* C13: success path.  An item becomes Completed only at the end of a task
\* whose upload_photo returned Ok and which moved the source file into
\* uploaded/; at that moment the file it uploaded is no longer at the source
\* path, it is in uploaded/ under the name the task moved it to, and the
\* item's progress is 1.0.
C13_SuccessPath == [][C13_Step]_vars

(* -------------------------------- C14 --------------------------------- *)

\* What every reading of C14 asks of a step in which an item becomes Failed.
C14_FailedItem(id) ==
    /\ \E t \in tasks :
          /\ t.id = id /\ t.pc = "failed" /\ t.err \in Errors
          /\ ItemOf(items', id).status = Failed(t.err)
    /\ ItemOf(items', id).completed_at = Some(now)
    /\ ItemOf(items', id).progress = ItemOf(items, id).progress

\* C14 as stated: when an item becomes Failed its source file is still at
\* its source path.
C14_FailureLeavesFile ==
    [][\A id \in Becomes("Failed") :
          /\ C14_FailedItem(id)
          /\ src'[ItemOf(items, id).file_path] # NoFile]_vars

\* What the amended C14 asks of one step.
C14_Step ==
    /\ \A id \in Becomes("Failed") :
          /\ C14_FailedItem(id)
          /\ \A t \in tasks : t.id = id => t.file = NoFile /\ t.dest = None
    /\ \A t \in tasks : \A u \in tasks' :
          (SameTask(t, u) /\ t.pc = "uploading" /\ u.pc = "failed")
              => UNCHANGED <<src, uploaded>>
    /\ Becomes("Failed") # {} => UNCHANGED <<src, uploaded>>

\* C14, amended: failure path.  On any failure of the upload task the item
\* becomes Failed(message) with completed_at set and its progress left at
\* the value it had, and the task has neither moved nor removed anything:
\* the steps in which it fails and marks the item leave the watch folder
\* and uploaded/ as they were.  The source file is at its source path unless it was missing when
\* upload_photo tried to read it or was taken away by someone else.
C14_FailurePath == [][C14_Step]_vars

\* An item has Failed on the move of its file, which is still at its source
\* path; the progress is the 0.1 of the claim.
C14_Witness ==
    \E i \in Indexes(items) :
        /\ items[i].status = Failed(MoveError)
        /\ items[i].progress = 1
        /\ items[i].completed_at # None
        /\ src[items[i].file_path] # NoFile

(* -------------------------------- C15 --------------------------------- *)

\* What C15 asks of one step.
C15_Step ==
    /\ \A i \in Indexes(items) : \A j \in Indexes(items') :
          (IsFailed(items[i]) /\ items'[j].id = items[i].id)
              => items'[j].status = items[i].status
    /\ \A t \in SpawnedNow : t.n = 1 /\ t.id \in ClaimedNow
    /\ \A id \in Ids :
          uploadCount'[id] # uploadCount[id] =>
              /\ uploadCount[id] = 0
              /\ \E t \in tasks : t.id = id /\ t.pc = "uploading"

C15_OneUpload == \A id \in Ids : uploadCount[id] <= 1

\* C15: no automatic retry.  upload_photo is called at most once per item
\* id, by the one task spawned when the item was claimed, and an item that
\* is Failed stays as it is for as long as it is in the queue: no tick
\* claims it again.  A path is uploaded a second time only under the new id
\* it gets when it is added again after its item was cleared.
C15_NoRetry == [][C15_Step]_vars /\ []C15_OneUpload

\* A tick has just passed over a Failed item whose one upload was made, and
\* claimed nothing.
C15_Witness ==
    /\ last.op = "tick" /\ last.id = 0
    /\ \E i \in Indexes(items) : IsFailed(items[i]) /\ uploadCount[items[i].id] = 1

(* -------------------------------- C16 --------------------------------- *)

\* The tasks that move their file in this step, as they are after it.
MovedNow ==
    {u \in tasks' : u.pc = "moved" /\ \E t \in tasks : SameTask(t, u) /\ t.pc = "uploading"}

\* C16: name collision on move.  When upload_photo returned Ok and uploaded/
\* already holds a file under the item's name, the source file is moved
\* under the name with the timestamp suffix; no move replaces an entry of
\* uploaded/, and a task that has moved its file does not fail.
C16_NameCollision ==
    [][/\ \A u \in MovedNow :
             /\ exists(uploaded, new_path(u.file_path))
                   => u.dest = Some([new_path(u.file_path) EXCEPT !.stamp = Some(now)])
             /\ uploaded \subseteq uploaded'
       /\ \A t \in tasks : \A u \in tasks' :
             (SameTask(t, u) /\ t.pc \in {"moved", "ok"}) => u.pc \in {"moved", "ok"}]_vars

(* -------------------------------- C17 --------------------------------- *)

\* C17 as stated: the event code a task uploads with is the value that was
\* current when its item was claimed.
C17_SnapshotAtDispatch ==
    \A t \in tasks : t.pc # "spawned" => t.code = t.claim_code

\* What the amended C17 asks of one step.
C17_Step ==
    \A t \in tasks : \A u \in tasks' :
        SameTask(t, u) =>
            /\ (t.pc = "spawned" /\ u.pc # "spawned")
                  => u.code = event_code /\ event_code' = event_code
            /\ t.pc = "spawned" /\ u.pc = "spawned" => u.code = ""
            /\ t.pc # "spawned" => u.code = t.code

\* C17, amended: snapshot at the first poll.  A claimed task holds no event
\* code until it first runs; the value it uploads with is the one that is
\* current at that moment, when it takes the read guard, and it keeps that
\* value until it ends.
C17_SnapshotAtFirstPoll == [][C17_Step]_vars

\* An update took effect between the claim of an item and the first poll of
\* its task: the task uploads with the new value.
C17_Witness ==
    \E t \in tasks :
        /\ t.pc = "uploading"
        /\ t.code = event_code
        /\ t.code # t.claim_code

(* -------------------------------- C18 --------------------------------- *)

\* What C18 asks of one step.
C18_Step ==
    /\ event_code' # event_code =>
          /\ Readers(tasks) = {}
          /\ event_code' = writer
    /\ \A t \in tasks : \A u \in tasks' :
          (SameTask(t, u) /\ t.pc # "spawned") => u.code = t.code

C18_InFlightUsesCurrent ==
    \A t \in tasks : t.pc # "spawned" => t.code = event_code

\* C18: Scenario F.  While an upload task is in flight the value behind the
\* lock is the one the task uploads with: an update_event_code called in the
\* meantime takes effect only when no task is in flight, so the task ends
\* with the value it started with, and every task that starts afterwards
\* uses the value then current.  No task changes its value.
C18_ScenarioF == [][C18_Step]_vars /\ []C18_InFlightUsesCurrent

\* An update to another value was called while a task is in flight; the
\* task has made its upload with the old value and the update is waiting.
C18_Witness ==
    /\ writer # "" /\ writer # event_code
    /\ \E t \in tasks : t.pc \in {"moved", "ok"} /\ t.code = event_code

(* -------------------------------- C19 --------------------------------- *)

\* What C19 asks of one step.
C19_Step ==
    last'.op = "update_event_code" =>
        IF last'.code # event_code
        THEN /\ event_code' = last'.code
             /\ last'.log = <<[old |-> event_code, new |-> last'.code]>>
        ELSE /\ event_code' = event_code
             /\ last'.log = << >>

C19_SecondCallIsNoop ==
    \A c \in Codes : \A n \in Codes :
        LET r1 == update_event_code(c, n)
            r2 == update_event_code(r1.event_code, n)
        IN  r1.event_code = n /\ r2.event_code = n /\ r2.log = << >>

\* C19: update_event_code(new) with a value other than the current one
\* stores it and sends one log event old -> new; with the current value it
\* changes nothing and sends no event, so a second call with the same value
\* does nothing.
C19_UpdateEventCode == [][C19_Step]_vars /\ []C19_SecondCallIsNoop

\* Two calls with the same value have been made: the first stored it, the
\* second has just returned without a log event.
C19_Witness ==
    /\ last.op = "update_event_code"
    /\ last.code = last.old /\ last.log = << >>
    /\ event_code = last.code /\ event_code # "evt-a"

(* -------------------------------- C20 --------------------------------- *)

\* The extension of the name, compared without regard to case, is one of
\* jpg, jpeg, png, nef.
C20_ImageExtension(name) ==
    /\ extension(name) # << >>
    /\ \E e \in ImageExtensions :
          /\ Len(e) = Len(extension(name)[1])
          /\ \A i \in 1..Len(e) :
                to_lowercase_char(extension(name)[1][i]) = e[i]

\* A path reported by an event of this kind is to be sent downstream.
C20_Emitted(kind, p) ==
    /\ kind \in {"Create", "Modify"}
    /\ p.is_file
    /\ C20_ImageExtension(p.name)

\* What C20 asks of one step.
C20_Step ==
    last'.op = "event" =>
        /\ Len(channel') >= Len(channel)
        /\ SubSeq(channel', 1, Len(channel)) = channel
        /\ LET sent == SubSeq(channel', Len(channel) + 1, Len(channel')) IN
           /\ \A i \in 1..Len(last'.paths) :
                 C20_Emitted(last'.kind, last'.paths[i])
                     <=> \E j \in 1..Len(sent) : sent[j] = last'.paths[i]
           /\ \A j \in 1..Len(sent) :
                 \E i \in 1..Len(last'.paths) : sent[j] = last'.paths[i]

C20_OnlyImagesInChannel ==
    \A j \in 1..Len(channel) :
        channel[j].is_file /\ C20_ImageExtension(channel[j].name)

TestExtensions ==
    {<<"j", "p", "g">>, <<"j", "p", "e", "g">>, <<"p", "n", "g">>,
     <<"h", "e", "i", "c">>, <<"n", "e", "f">>, <<"t", "x", "t">>,
     <<"m", "p", "4">>}

\* A character in the cases it can be written in.
CaseOf(c) == {c} \cup {Upper[i] : i \in {j \in 1..Len(Lower) : Lower[j] = c}}

\* A word in every spelling of upper and lower case letters.
RECURSIVE Spellings(_)
Spellings(word) ==
    IF word = << >>
    THEN {<< >>}
    ELSE {<<c>> \o rest : c \in CaseOf(Head(word)), rest \in Spellings(Tail(word))}

\* The paths is_image_file is called with: test and TEST with each of the
\* extensions in each spelling, and without an extension.
TestStems == {<<"t", "e", "s", "t">>, <<"T", "E", "S", "T">>}
TestNames ==
    {stem \o <<".">> \o e :
        stem \in TestStems, e \in UNION {Spellings(x) : x \in TestExtensions}}
    \cup TestStems

\* What a call of is_image_file leaves in `last`.
ImageCall(name, ret) ==
    [Call("is_image_file", "", 0, IF ret THEN "true" ELSE "false", FALSE)
        EXCEPT !.args = <<name>>]

\* is_image_file(path) is called.
IsImageFile ==
    \E name \in TestNames :
        /\ last' = ImageCall(name, is_image_file(name))
        /\ UNCHANGED <<items, nextId, is_running, loops, tasks, claimCount,
                       uploadCount, active_uploads, codeVars, fsVars, channel,
                       appVars>>

ImageSpec == Init /\ [][IsImageFile]_vars

\* The extensions C21 names, in lower case.
C21_Extensions == ImageExtensions \cup {<<"h", "e", "i", "c">>}

\* The name has an extension that, letter case aside, is one C21 names.
C21_Image(name) ==
    \E stem \in TestStems, e \in C21_Extensions :
        \E spelt \in Spellings(e) : name = stem \o <<".">> \o spelt

\* C21: is_image_file returns true for every path whose extension is jpg,
\* jpeg, png, heic or nef in any letter case, and false for a path with
\* another extension (txt, mp4) or with no extension.
C21_TestIsImageFile ==
    last.op = "is_image_file" =>
        (last.res = "true" <=> C21_Image(last.args[1]))

(* -------------------------------- C22 --------------------------------- *)

\* What C22 asks of one step taken while the application holds no
\* FileWatcher: the callback is not called and nothing is sent.
C22_Step ==
    ~watcher.held =>
        /\ last'.op # "callback"
        /\ Len(channel') <= Len(channel)

\* C22: watcher teardown is deterministic.  Once the FileWatcher has been
\* dropped the native subscription is stopped and the delivery thread
\* delivers no further path to the consumer: no callback is called and
\* nothing is sent into the channel after teardown has returned, the paths
\* buffered when teardown began included.
C22_DeterministicTeardown ==
    [][C22_Step]_vars /\ [](~watcher.held => ~watcher.subscribed)

(* -------------------------------- C24 --------------------------------- *)

\* What C24 asks of one step that is a call of FileWatcher::new.
C24_Step ==
    last'.op = "new" =>
        LET path_kind == last'.args[1]
            probe == last'.args[2]
            created == last'.args[3]
            watched == last'.args[4]
        IN  /\ path_kind = "missing" =>
                  last'.res = "Watch path does not exist" /\ watcher' = NoWatcher
            /\ path_kind = "file" =>
                  last'.res = "Watch path is not a directory" /\ watcher' = NoWatcher
            /\ last'.res # "Ok" => ~watcher'.subscribed /\ ~watcher'.thread
            /\ (path_kind = "dir" /\ created /\ watched) =>
                  last'.res = "Ok" /\ watcher' = Watching
            /\ ~probe => last'.log # <<"writable">>

\* C24: construction of the watcher fails with an error, installs no
\* subscription and starts no delivery thread when the given path does not
\* exist or is not a directory; a failed write-access probe alone never
\* makes construction fail.
C24_ConstructionFailsFast == [][C24_Step]_vars

\* FileWatcher::new has just returned the error for a path that is a file,
\* and there is neither a subscription nor a thread.
C24_Witness ==
    /\ last.op = "new"
    /\ last.args[1] = "file"
    /\ last.res = "Watch path is not a directory"
    /\ ~watcher.subscribed /\ ~watcher.thread /\ ~watcher.held

(* -------------------------------- C25 --------------------------------- *)

\* The step is the callback's run on an error of the subscription.
C25_ErrorStep ==
    last'.op = "watch_error" /\ watchLog'.errors = watchLog.errors + 1

\* What C25 asks of one step.
C25_Step ==
    /\ C25_ErrorStep =>
          /\ last'.log # << >>
          /\ watcher' = watcher
          /\ channel' = channel
    /\ (last'.op = "event" /\ ~C25_ErrorStep) =>
          \A i \in 1..Len(last'.paths) :
              C20_Emitted(last'.kind, last'.paths[i]) =>
                  /\ Len(channel') > Len(channel)
                  /\ channel'[Len(channel')] = last'.paths[i]

\* C25: an error reported by the OS file-system subscription is logged and
\* does not terminate the watcher.  After any number of such errors the
\* subscription is still installed and a later create or modify event for
\* an accepted file is still emitted, until the watcher is torn down.
C25_ErrorsDoNotTerminate ==
    [][C25_Step]_vars /\ [](watcher.held => watcher.subscribed /\ watcher.thread)

\* After as many errors as a run has, a create or modify event has just
\* reported an image file, which was sent.
C25_Witness ==
    /\ watchLog.errors = MaxErrors
    /\ watcher.held
    /\ last.op = "event"
    /\ channel # << >>
    /\ channel[Len(channel)] = last.paths[1]

(* -------------------------------- C23 --------------------------------- *)

\* Nothing that carries this file name is on its way to the queue.
C23_Quiescent(name) ==
    /\ \A i \in 1..Len(channel) : channel[i].name # name
    /\ \A i \in 1..Len(file_events) : file_events[i].name # name
    /\ pending[path_buf(name)] = 0

\* The watcher has sent the path as often as a create or modify event
\* reported it as a file.
C23_EmittedPerNotification ==
    \A name \in PipeNames :
        is_image_file(name) => watchLog.emitted[name] = watchLog.notified[name]

\* Once every path sent has been taken through, a path that was reported
\* has exactly one item.
C23_OneItem ==
    \A name \in PipeNames :
        (watchLog.notified[name] >= 1 /\ C23_Quiescent(name)) =>
            Cardinality(WithPath(items, path_buf(name))) = 1

\* C23: the watcher does no deduplication.  For any number n of create or
\* modify notifications reporting the same accepted path the watcher emits
\* that path n times, once per notification, and the pipeline as a whole
\* still ends with exactly one queue item for that path.
C23_NoDedupInWatcher == C23_EmittedPerNotification /\ C23_OneItem

\* A path was reported and sent as often as a run allows, all of it has
\* gone through the pipeline, and the queue holds one item for it.
C23_Witness ==
    \E name \in PipeNames :
        /\ watchLog.notified[name] = MaxNotify
        /\ watchLog.emitted[name] = MaxNotify
        /\ C23_Quiescent(name)
        /\ Cardinality(WithPath(items, path_buf(name))) = 1

(* -------------------------------- C26 --------------------------------- *)

\* What a call of the transport client leaves in `last`: what it met and
\* what it returned.
ApiCall(op, file, sent, status, body_read, body, r) ==
    [Call(op, "", 0, r.tag, FALSE) EXCEPT
        !.args = [file |-> file, sent |-> sent, status |-> status,
                  body_read |-> body_read, body |-> body],
        !.ret = Some(r)]

\* api_client.test_connection(api_key) is called.
TestConnection ==
    \E sent \in BOOLEAN, status \in HttpStatuses, body_read \in BOOLEAN,
       body \in Bodies :
        /\ last' = ApiCall("test_connection", "readable", sent, status, body_read,
                           body, test_connection(sent, status, body_read, body))
        /\ UNCHANGED <<items, nextId, is_running, loops, tasks, claimCount,
                       uploadCount, active_uploads, codeVars, fsVars, channel,
                       appVars>>

\* api_client.upload_photo(event_code, file_path, api_key) is called.
UploadPhoto ==
    \E file \in FileStates, sent \in BOOLEAN, status \in HttpStatuses,
       body_read \in BOOLEAN, body \in Bodies :
        /\ last' = ApiCall("upload_photo", file, sent, status, body_read, body,
                           upload_photo(file, sent, status, body_read, body))
        /\ UNCHANGED <<items, nextId, is_running, loops, tasks, claimCount,
                       uploadCount, active_uploads, codeVars, fsVars, channel,
                       appVars>>

ApiNext ==
    \/ TestConnection
    \/ UploadPhoto

ApiSpec == Init /\ [][ApiNext]_vars

\* The last step was a call of the transport client.
C26_Called == last.op \in {"test_connection", "upload_photo"}

\* The call got a response: it read its file and send() returned one.
C26_Responded == last.args.file = "readable" /\ last.args.sent

\* The body of the response deserializes.
C26_Deserializes == last.args.body_read /\ last.args.body.parsed # None

\* The parts of the classification that do not depend on how a non-success
\* response is read.
C26_Common ==
    /\ last.ret[1].tag = "Ok" <=>
          /\ C26_Responded
          /\ is_success(last.args.status)
          /\ C26_Deserializes
          /\ last.args.body.parsed[1].success
    /\ (/\ C26_Responded
        /\ is_success(last.args.status)
        /\ C26_Deserializes
        /\ ~last.args.body.parsed[1].success) =>
          /\ last.ret[1].tag = "ApiError"
          /\ last.ret[1].message = <<last.args.body.parsed[1].message>>
    /\ last.args.file # "readable" =>
          /\ last.ret[1].tag = "IoError"
          /\ ~last.ret[1].requested

\* The result is the service-reported failure carrying the response body.
C26_CarriesBody ==
    /\ last.ret[1].tag = "ApiError"
    /\ \E i \in 1..Len(last.ret[1].message) :
          last.ret[1].message[i] = last.args.body.text

\* C26 as claimed: the call returns Ok if and only if the HTTP status is a
\* success status, the body deserializes and its success field is true; a
\* non-success HTTP status yields the service-reported failure carrying the
\* response body; a well-formed body with success = false yields that error
\* carrying the body's message verbatim; for upload, a failure to read the
\* local file yields the I/O error and no request is sent.
C26_Classification ==
    C26_Called =>
        /\ C26_Common
        /\ (C26_Responded /\ ~is_success(last.args.status)) => C26_CarriesBody

\* C26, amended: as claimed, except that a non-success HTTP status yields
\* the service-reported failure carrying the response body only if the
\* body arrives; if reading it fails the call returns the transport error.
C26_ClassificationOfReadBody ==
    C26_Called =>
        /\ C26_Common
        /\ (C26_Responded /\ ~is_success(last.args.status)) =>
              IF last.args.body_read
              THEN C26_CarriesBody
              ELSE last.ret[1].tag = "HttpError"

\* upload_photo has just returned the error for a response with status 500
\* whose body says success = false: the error carries the text of the body,
\* not the body's message.
C26_Witness ==
    /\ last.op = "upload_photo"
    /\ C26_Responded
    /\ last.args.status = 500
    /\ last.args.body_read
    /\ last.args.body.parsed # None
    /\ C26_CarriesBody

(* -------------------------------- C27 --------------------------------- *)

\* The manager in use, with a runtime that polls every task it was handed
\* and a transport call and a file move that return.
FairUploadSpec ==
    /\ Init /\ [][LoopNext]_vars
    /\ WF_vars(Tick) /\ WF_vars(TaskBegin) /\ WF_vars(TaskUpload)
    /\ WF_vars(TaskProgress) /\ WF_vars(TaskComplete) /\ WF_vars(TaskFail)

\* The item with this id is Queued in the queue of a manager whose start()
\* has succeeded.
C27_QueuedAfterStart(id) ==
    /\ loops >= 1
    /\ \E i \in Indexes(items) : items[i].id = id /\ IsQueued(items[i])

\* The item with this id has been claimed.
C27_Claimed(id) ==
    /\ claimCount[id] >= 1
    /\ \E i \in Indexes(items) : items[i].id = id /\ ~IsQueued(items[i])

\* The item with this id is Completed or Failed.
C27_Terminal(id) ==
    \E i \in Indexes(items) :
        items[i].id = id /\ (IsCompleted(items[i]) \/ IsFailed(items[i]))

\* C27: liveness.  Once start() has succeeded every item that is Queued is
\* eventually claimed and, provided its transport call and its file move
\* return, eventually reaches Completed or Failed, under fair scheduling of
\* the tick loop and of the upload tasks; a failure of one item does not
\* prevent later items from being claimed.
C27_Liveness ==
    /\ \A id \in Ids : C27_QueuedAfterStart(id) ~> C27_Claimed(id)
    /\ \A id \in Ids : C27_Claimed(id) ~> C27_Terminal(id)

\* A tick has just claimed the second item while the first one is Failed.
C27_Witness ==
    /\ Len(items) = 2
    /\ IsFailed(items[1])
    /\ IsUploading(items[2])
    /\ last.op = "tick" /\ last.id = items[2].id

(* -------------------------------- C28 --------------------------------- *)

\* The positions of q whose items a clear operation is to leave in place.
C28_Keep(q, op) ==
    {i \in Indexes(q) :
        CASE op = "clear_completed" -> ~IsCompleted(q[i])
          [] op = "clear_failed" -> ~IsFailed(q[i])
          [] op = "clear_all" -> FALSE}

\* The items at these positions of q, in the order they have in q.
C28_Remaining(q, keep) ==
    [k \in 1..Cardinality(keep) |->
        q[CHOOSE i \in keep : Cardinality({j \in keep : j <= i}) = k]]

\* The step is a call of a clear operation.
C28_ClearStep ==
    /\ last'.op \in {"clear_completed", "clear_failed", "clear_all"}
    /\ ClearCompleted \/ ClearFailed \/ ClearAll

\* What C28 asks of one step.
C28_Step ==
    C28_ClearStep =>
        /\ items' = C28_Remaining(items, C28_Keep(items, last'.op))
        /\ UNCHANGED <<tasks, active_uploads, nextId>>

C29_Terminal(item) == IsCompleted(item) \/ IsFailed(item)

\* The timestamps an item has for its status.
C29_Stamped(item) ==
    /\ IsQueued(item) => item.started_at = None /\ item.completed_at = None
    /\ IsUploading(item) => item.started_at # None /\ item.completed_at = None
    /\ C29_Terminal(item) => item.started_at # None /\ item.completed_at # None

\* What C29 asks of one step and one item that is in the queue before and
\* after it.
C29_ItemStep(before, after) ==
    /\ after.added_at = before.added_at
    /\ before.started_at # None => after.started_at = before.started_at
    /\ before.completed_at # None => after.completed_at = before.completed_at
    /\ (IsQueued(before) /\ IsUploading(after)) => after.started_at = Some(now)
    /\ (IsUploading(before) /\ C29_Terminal(after)) => after.completed_at = Some(now)

\* What C29 asks of one step.
C29_Step ==
    /\ \A i \in Indexes(items), j \in Indexes(items') :
          items[i].id = items'[j].id => C29_ItemStep(items[i], items'[j])
    /\ \A j \in Indexes(items') :
          (\A i \in Indexes(items) : items[i].id # items'[j].id) =>
              items'[j].added_at = now

\* C29: each timestamp of an item is set exactly once: added_at at creation,
\* started_at at the transition into Uploading, completed_at at the
\* transition into Completed or Failed.  started_at is absent while the
\* item is Queued, completed_at is absent until the item is terminal, and
\* neither is overwritten afterwards.
C29_TimestampsSetOnce ==
    [][C29_Step]_vars /\ [](\A i \in Indexes(items) : C29_Stamped(items[i]))

\* An item added and claimed in second 0 was completed in second 1 and
\* still shows when it was started.
C29_Witness ==
    \E i \in Indexes(items) :
        /\ IsCompleted(items[i])
        /\ items[i].added_at = 0
        /\ items[i].started_at = Some(0)
        /\ items[i].completed_at = Some(1)

(* -------------------------------- C30 --------------------------------- *)

\* C30: the queue's exclusive lock is never held across file or network
\* I/O: every holder (stats read, insertion with its dedup check and
\* thumbnail generation, claim, per-id status update) takes the lock, does
\* only in-memory work and releases it before any I/O step begins.
C30_NoIoUnderLock == guard.holder # "" => ~guard.io

(* -------------------------------- C31 --------------------------------- *)

\* The items whose progress this step sets to 0.9: their positions in the
\* queue before the step.
C31_AlmostDone ==
    {i \in Indexes(items) :
        \E j \in Indexes(items') :
            /\ items'[j].id = items[i].id
            /\ items[i].progress # 9
            /\ items'[j].progress = 9}

\* The task that uploads the item with this id has not renamed the file.
C31_NotMoved(id) == \E t \in tasks : t.id = id /\ t.dest = None

\* The task that uploads the item with this id has had Ok from upload_photo
\* and has renamed the file into uploaded/.
C31_Moved(id) == \E t \in tasks : t.id = id /\ t.pc = "moved" /\ t.dest # None

\* What C31 asks of one step and one item that is in the queue before and
\* after it, the moment of 0.9 aside.
C31_ItemStep(before, after) ==
    /\ after.progress >= before.progress
    /\ after.progress # before.progress =>
          \/ /\ before.progress = 0 /\ after.progress = 1
             /\ IsQueued(before) /\ IsUploading(after)
          \/ /\ before.progress = 1 /\ after.progress = 9
             /\ IsUploading(before) /\ IsUploading(after)
          \/ /\ before.progress = 9 /\ after.progress = 10
             /\ IsUploading(before) /\ IsCompleted(after)
    /\ (IsQueued(before) /\ IsUploading(after)) => after.progress = 1
    /\ (~IsCompleted(before) /\ IsCompleted(after)) => after.progress = 10

\* The order of the progress values in one step, the moment of 0.9 aside.
C31_Order ==
    /\ \A i \in Indexes(items), j \in Indexes(items') :
          items[i].id = items'[j].id => C31_ItemStep(items[i], items'[j])
    /\ \A j \in Indexes(items') :
          (\A i \in Indexes(items) : items[i].id # items'[j].id) =>
              items'[j].progress = 0

\* C31: progress follows the order 0 at creation, 0.1 when the item enters
\* Uploading, 0.9 after the remote call has succeeded but before the local
\* file move is performed, 1.0 when the item becomes Completed; progress
\* never decreases during an item's life.
C31_ProgressOrder ==
    [][C31_Order /\ \A i \in C31_AlmostDone : C31_NotMoved(items[i].id)]_vars

\* C31 as the code has it: progress follows the order 0 at creation, 0.1
\* when the item enters Uploading, 0.9 after the remote call has succeeded
\* and the local file move has been performed, 1.0 when the item becomes
\* Completed; progress never decreases during an item's life.
C31_ProgressOrderAfterMove ==
    [][C31_Order /\ \A i \in C31_AlmostDone : C31_Moved(items[i].id)]_vars

\* The file of an item is in uploaded/ and the item shows 0.9 while its
\* task has not made its last update.
C31_Witness ==
    \E i \in Indexes(items), t \in tasks :
        /\ t.id = items[i].id
        /\ t.pc = "ok"
        /\ t.dest # None
        /\ \E e \in uploaded : e.name = t.dest[1] /\ e.file = t.file
        /\ items[i].progress = 9
        /\ IsUploading(items[i])

(* -------------------------------- C32 --------------------------------- *)

\* The task that makes its completion or failure update in this step.
C32_Finishing(t) ==
    /\ t \in tasks
    /\ t.pc \in {"ok", "failed"}
    /\ tasks' = tasks \ {t}

\* The two items differ at most in status, progress and completed_at.
C32_SameButOutcome(before, after) ==
    after = [before EXCEPT !.status = after.status,
                           !.progress = after.progress,
                           !.completed_at = after.completed_at]

\* What C32 asks of the update of the task t.
C32_Update(t) ==
    /\ Len(items') = Len(items)
    /\ \A i \in Indexes(items) :
          IF items[i].id = t.id
          THEN /\ C32_SameButOutcome(items[i], items'[i])
               /\ t.pc = "ok" => items'[i].status = Completed
               /\ t.pc = "failed" => items'[i].status = Failed(t.err)
          ELSE items'[i] = items[i]

\* What C32 asks of one step.
C32_Step == \A t \in tasks : C32_Finishing(t) => C32_Update(t)

\* C32: completion updates are per-id and order-independent: for any order
\* in which concurrent upload tasks finish, a task's completion or failure
\* update changes only the status, progress and completed_at of the item
\* whose id the task carries, and each item's final status reflects the
\* outcome of its own task.
C32_PerIdUpdates == [][C32_Step]_vars

\* Two tasks were in flight and the one claimed second finished first, with
\* a failure; the task of the first item, which has had Ok, has yet to make
\* its update.
C32_Witness ==
    /\ Len(items) = 2
    /\ IsUploading(items[1])
    /\ IsFailed(items[2])
    /\ \E t \in tasks : t.id = items[1].id /\ t.pc = "ok"
    /\ \A t \in tasks : t.id # items[2].id

(* -------------------------------- C33 --------------------------------- *)

\* C33: every start of a watch session feeds the current user configuration
\* into the core: after the API endpoint, the API key or the watch folder
\* is changed and watching is started again, the uploads dispatched in the
\* new session use the new transport client, credential and folder, not the
\* ones captured by an earlier session.
C33_SessionUsesCurrent ==
    [][(last'.op = "tick" /\ last'.id # 0 /\ app.session # None)
          => task_uses(app) = Uses(app.session[1])]_vars

(* -------------------------------- C34 --------------------------------- *)

\* What C34 asks of a call of start(): one that returns an error leaves
\* is_running false, and one that finds no loop launched and can create
\* the directory launches the loop.
C34_Step ==
    StartStep =>
        /\ last'.res = "Err" => ~is_running'
        /\ (loops = 0 /\ last'.dir_ok) => loops' = 1

\* C34: a start() that fails leaves the manager Stopped: after start()
\* returns an error, is_running() is false and a later start() attempts the
\* directory creation again and can launch the loop.
C34_FailedStartLeavesStopped == [][C34_Step]_vars

(* -------------------------------- C35 --------------------------------- *)

\* C35: for any sequence of start() and stop() calls on one manager, at
\* most one background tick loop is alive at any time.
C35_OneLoop == loops <= 1

(* -------------------------------- C36 --------------------------------- *)

\* The item created first: the one whose transport call never returns.
StuckId == 1

\* upload_and_move_file returns in a task that is not the stuck one.
TaskUploadReturns ==
    /\ TaskUpload
    /\ \A t \in tasks \ tasks' : t.id # StuckId

\* The manager at work while the user edits the event code and the
\* transport call of the first item never returns.
StuckNext ==
    \/ WatcherAdd
    \/ Start
    \/ Tick
    \/ TaskBegin
    \/ TaskUploadReturns
    \/ TaskProgress
    \/ TaskComplete
    \/ TaskFail
    \/ UpdateEventCodeCall
    \/ UpdateEventCodeWrite

\* The runtime polls every task it was handed, the loop wakes up every
\* second, every transport call but the stuck one returns, and write()
\* returns the write guard once the lock is free.  The RwLock serves its
\* waiters in the order in which they came, so a task that waits in read()
\* behind a writer gets its read guard when that writer is done, however
\* many writers come after it.
StuckSpec ==
    /\ Init /\ [][StuckNext]_vars
    /\ WF_vars(Tick) /\ SF_vars(TaskBegin) /\ WF_vars(TaskUploadReturns)
    /\ WF_vars(TaskProgress) /\ WF_vars(TaskComplete) /\ WF_vars(TaskFail)
    /\ WF_vars(UpdateEventCodeWrite)

\* C36: update_destination terminates without waiting for in-flight
\* uploads: a call made while upload tasks are in flight acquires the write
\* lock and returns even if none of those uploads ever finishes, so the
\* writer excludes readers only briefly.
C36_UpdateReturns == (writer # "") ~> (writer = "")

(* -------------------------------- C37 --------------------------------- *)

\* The item with this id is Queued in the queue of a manager whose start()
\* has succeeded.
C37_Waiting(id) ==
    /\ loops >= 1
    /\ \E i \in Indexes(items) : items[i].id = id /\ IsQueued(items[i])

\* The item with this id is Completed or Failed.
C37_Done(id) ==
    \E i \in Indexes(items) :
        items[i].id = id /\ (IsCompleted(items[i]) \/ IsFailed(items[i]))

\* C37: a stuck upload task (its transport call never returns) affects only
\* its own item: every other item that is Queued or added later is still
\* claimed and reaches Completed or Failed, also when update_destination is
\* called while the stuck task is in flight.
C37_StuckTaskIsolated ==
    \A id \in Ids \ {StuckId} : C37_Waiting(id) ~> C37_Done(id)

(* -------------------------------- C38 --------------------------------- *)

\* C38: no deadlock: for any interleaving of the scheduler loop, the upload
\* tasks, the producer insertions, update_event_code, start() and stop()
\* (the latter three called while holding the manager mutex as the
\* application does), the acquisitions of the queue mutex, the event-code
\* read/write lock and the manager mutex never form a cycle of tasks
\* waiting on each other.
C38_NoWaitCycle == \A p \in Procs : p \notin Awaited(p, Cardinality(Procs))

\* The three locks are in use at once: the task of update_event_code holds
\* the manager and waits for an upload task's read guard, that task waits
\* for the queue, and the queue is held by a producer inside add_file.
\* The task of start() waits behind them.
C38_Witness ==
    /\ writer # ""
    /\ guard.holder = "add_file"
    /\ \E t \in tasks :
          /\ t.pc \in {"moved", "ok", "failed"}
          /\ WaitsFor(Proc("update", 0), Proc("task", t.id))
          /\ WaitsFor(Proc("task", t.id), Proc("producer", 0))
    /\ WaitsFor(Proc("start", 0), Proc("update", 0))

(* -------------------------------- C39 --------------------------------- *)

\* The task makes one of its queue updates in this step: progress 0.9, or
\* its completion or failure update.
C39_Updates(t) ==
    /\ t \in tasks
    /\ t.pc \in {"moved", "ok", "failed"}
    /\ t \notin tasks'

\* The queue holds no item with the id the task carries.
C39_Orphan(t) == \A i \in Indexes(items) : items[i].id # t.id

\* What C39 asks of one step.
C39_Step == \A t \in tasks : (C39_Updates(t) /\ C39_Orphan(t)) => items' = items

\* C39: if an item is removed from the queue (clear_all, clear_completed,
\* clear_failed or remove_item) while its upload task is in flight, the
\* task's later progress, completion or failure update finds no item with
\* its id and is a no-op: it changes no item in the queue, including a new
\* item later added for the same path.
C39_OrphanUpdateIsNoop == [][C39_Step]_vars

\* The item of a task was removed and its path added again; the task has
\* moved the file and made its progress update, and the new item is as it
\* was created.
C39_Witness ==
    \E t \in tasks :
        /\ t.pc = "ok"
        /\ C39_Orphan(t)
        /\ \E i \in Indexes(items) :
              /\ items[i].file_path = t.file_path
              /\ IsQueued(items[i])
              /\ items[i].progress = 0

(* -------------------------------- C40 --------------------------------- *)

\* The task has yet to read, upload or move its file, or is doing so.
C40_InFlight(t) == t.pc \in {"spawned", "uploading"}

\* C40: at no time do two in-flight upload tasks read, upload or move the
\* same source path, for any sequence of add, claim, clear_completed,
\* clear_failed, clear_all and remove_item operations interleaved with
\* running uploads.
C40_OneTaskPerPath ==
    \A t \in tasks, u \in tasks :
        (C40_InFlight(t) /\ C40_InFlight(u) /\ t.file_path = u.file_path)
            => t = u

====
